---- MODULE Spec2Model ----
(***************************************************************************)
(* Bisect Sync v2 (bridge-server/blender-addon/bisect_sync_v2.py): the     *)
(* client-side scene synchronisation core.  Two execution contexts share   *)
(* the fields of BisectSyncState: the host context (operators, the timer   *)
(* tick, the depsgraph handler) and one network thread per connection      *)
(* attempt (ws_thread_func and its callbacks).                             *)
(*                                                                         *)
(* Time is counted in units of 11 ms, so sync_interval (0.033 s) is 3.     *)
(***************************************************************************)
EXTENDS Integers, Sequences, FiniteSets, TLC

\* ------------------------------------------------------------------ bounds
MaxThreads == 2      \* network threads ever started
MaxQueue   == 2      \* frames waiting in message_queue
MaxTime    == 6      \* last value of the clock
MaxUpdates == 2      \* entries of one depsgraph.updates
MaxObjects == 4      \* objects in bpy.data.objects
MaxModifiers == 2    \* modifiers on one object

\* ------------------------------------------------------- program constants
sync_interval == 3   \* BisectSyncState.sync_interval = 0.033 s, in 11 ms units

None      == 0       \* Python None for ws / ws_thread handles
OwnRole   == "blender"
Tids      == 1..MaxThreads
SessionIds == {"scene42", "lobby"}

VARIABLES
    \* BisectSyncState
    ws, connected, session_id, client_id, message_queue, ws_thread,
    last_sync_time, selected_objects, ignore_next_update,
    \* host collaborators
    thr,        \* network threads: [pc, sid, sock] per thread id
    objs,       \* bpy.data.objects: name -> object record
    active,     \* bpy.context.view_layer.objects.active
    materials,  \* bpy.data.materials: name -> Principled BSDF inputs
    timers,     \* registrations of timer_callback in bpy.app.timers
    now,        \* time.time()
    hostpc,     \* timer_callback: "idle", "drain" (the while loop), "select"
    \* observation of the latest step
    sent,       \* envelopes put on the wire by the latest step
    calls,      \* send_message calls of the latest step
    lastOp,     \* what the latest step was, with its result
    wireUsed,   \* the connections an envelope was sent on
    echo,       \* per entity: progress since the last remote transform
    lastEmit,   \* time of the latest notification that emitted a transform, or -1
    dropped,    \* on_error / on_close ran since the last successful start_connection
    stopped     \* stop_connection has returned and start_connection was not called since

vars == << ws, connected, session_id, client_id, message_queue, ws_thread,
           last_sync_time, selected_objects, ignore_next_update,
           thr, objs, active, materials, timers, now, hostpc,
           sent, calls, lastOp, wireUsed, echo, lastEmit, dropped, stopped >>

sessionVars == << ws, connected, session_id, client_id, message_queue, ws_thread,
                  last_sync_time, selected_objects, ignore_next_update >>
sceneVars   == << objs, active, materials >>

\* ------------------------------------------------------------ scene values
MeshName  == "Cube.001"
LightName == "Lamp"
GhostName == "Ghost"       \* never an object of the scene
ObjNames  == {MeshName, LightName}

\* mathutils.Quaternion is (w, x, y, z); the wire order is [x, y, z, w].
\* Euler angles are counted in half turns; the rotations met here are whole
\* numbers of half turns about X or about Z.
Quaternion(wxyz) == << wxyz[1], wxyz[2], wxyz[3], wxyz[4] >>

\* Quaternion.to_euler(): the rotation the (normalised) quaternion denotes,
\* with its angles in their principal range.
to_euler(q) ==
    IF q[1] # 0 THEN << 0, 0, 0 >>
    ELSE IF q[2] # 0 THEN << 1, 0, 0 >>
    ELSE IF q[4] # 0 THEN << 0, 0, 1 >>
    ELSE << 0, 0, 0 >>

\* Euler.to_quaternion(): (cos(a/2), sin(a/2), 0, 0) for the angle a about X,
\* (cos(a/2), 0, 0, sin(a/2)) about Z.  Euler angles are not wrapped: a full
\* turn is the angle 2, not 0.
to_quaternion(e) ==
    LET about == IF e[1] = 0 /\ e[3] # 0 THEN 4 ELSE 2    \* the component of the axis
        a     == IF about = 4 THEN e[3] ELSE e[1]
    IN  CASE a % 4 = 0 -> << 1, 0, 0, 0 >>
          [] a % 4 = 1 -> [ i \in 1..4 |-> IF i = about THEN 1 ELSE 0 ]
          [] a % 4 = 2 -> << -1, 0, 0, 0 >>
          [] a % 4 = 3 -> [ i \in 1..4 |-> IF i = about THEN -1 ELSE 0 ]

\* get_object_transform listing the rotation as it is stored: (w, x, y, z)
get_object_transform_wxyz(obj) ==
    LET rot == IF obj.rotation_mode = "QUATERNION"
               THEN obj.rotation_quaternion
               ELSE to_quaternion(obj.rotation_euler)
    IN  [ position |-> obj.location,
          rotation |-> << rot[1], rot[2], rot[3], rot[4] >>,
          scale    |-> obj.scale ]

\* get_object_transform(obj)
get_object_transform(obj) ==
    LET rot == IF obj.rotation_mode = "QUATERNION"
               THEN obj.rotation_quaternion
               ELSE to_quaternion(obj.rotation_euler)
    IN  [ position |-> obj.location,
          rotation |-> << rot[2], rot[3], rot[4], rot[1] >>,
          scale    |-> obj.scale ]

NewObject(type, mode) ==
    [ type |-> type, rotation_mode |-> mode,
      location |-> << 0, 0, 0 >>,
      rotation_quaternion |-> << 1, 0, 0, 0 >>,
      rotation_euler |-> << 0, 0, 0 >>,
      scale |-> << 1, 1, 1 >>,
      select |-> FALSE,
      shape |-> "",              \* the primitive the mesh was created as
      material |-> "",           \* obj.data.materials[0], "" for no slot
      modifiers |-> << >>,       \* obj.modifiers
      smooth |-> FALSE ]         \* the mesh is shaded smooth

\* dict.get(key, default)
Get(d, key, default) == IF key \in DOMAIN d THEN d[key] ELSE default

\* ---------------------------------------------------------------- envelopes
\* create_message(msg_type, payload): session_id is never passed by the callers
create_message(msg_type, payload) ==
    [ type |-> msg_type, sessionId |-> session_id,
      timestamp |-> now, payload |-> payload ]

\* the socket of connection t accepts a send
SockOpen(t) == t \in Tids /\ thr[t].sock = "open"

\* send_message(msg_type, payload): the call's outcome in the current state.
\* given records what the call found: the flag, the handle, the socket.
Call(ret, raised, wired) ==
    [ ret |-> ret, raised |-> raised, wired |-> wired,
      given |-> [ connected |-> connected, ws |-> ws, sock |-> SockOpen(ws) ] ]

\* send_message without its first check
send_message_unguarded(msg_type, payload) ==
    IF SockOpen(ws)
    THEN Call(TRUE, FALSE, << create_message(msg_type, payload) >>)
    ELSE Call(FALSE, FALSE, << >>)

send_message(msg_type, payload) ==
    IF ~connected \/ ws = None
    THEN Call(FALSE, FALSE, << >>)
    ELSE IF SockOpen(ws)
         THEN Call(TRUE, FALSE, << create_message(msg_type, payload) >>)
         ELSE \* ws.send raises; the except clause returns False
              Call(FALSE, FALSE, << >>)

\* ------------------------------------------------------------ inbound frames
\* A raw frame is the text the relay sent.  json says what json.loads makes of
\* it; for an object, hasType / payloadKind say which members it has, and
\* payload is the payload map (keys absent from the map are absent members).
EmptyMap == [ k \in {} |-> 0 ]

Frame(type, payload) ==
    [ json |-> "object", hasType |-> TRUE, type |-> type,
      payloadKind |-> "map", payload |-> payload ]

GarbageFrame == [ json |-> "invalid", hasType |-> FALSE, type |-> "",
                  payloadKind |-> "absent", payload |-> EmptyMap ]
ArrayFrame   == [ json |-> "array", hasType |-> FALSE, type |-> "",
                  payloadKind |-> "absent", payload |-> EmptyMap ]
NoTypeFrame  == [ json |-> "object", hasType |-> FALSE, type |-> "",
                  payloadKind |-> "map",
                  payload |-> [ objectId |-> MeshName, position |-> << 1, 2, 3 >> ] ]
NullPayloadFrame == [ json |-> "object", hasType |-> TRUE, type |-> "transform",
                      payloadKind |-> "null", payload |-> EmptyMap ]

\* the claim's malformed frames: not JSON, not an object, or lacking type
Malformed(f) == f.json # "object" \/ ~f.hasType

MoveFrame(sender) ==
    Frame("transform", [ objectId |-> MeshName, position |-> << 1, 2, 3 >>,
                         rotation |-> << 0, 0, 0, 1 >>, scale |-> << 1, 1, 1 >>,
                         _senderType |-> sender ])
TurnFrame ==
    Frame("transform", [ objectId |-> MeshName, rotation |-> << 2, 0, 0, 0 >>,
                         scale |-> << 2, 2, 2 >> ])
LampFrame ==
    Frame("transform", [ objectId |-> LightName, position |-> << 1, 2, 3 >> ])
GhostFrame ==
    Frame("transform", [ objectId |-> GhostName, position |-> << 1, 2, 3 >> ])
BadMoveFrame ==
    Frame("transform", [ objectId |-> MeshName, position |-> << 4, 4, 4 >>,
                         rotation |-> << 0, 0, 1 >> ])
SelectFrame(sender) ==
    Frame("object_select", [ objectIds |-> << GhostName, MeshName >>,
                             _senderType |-> sender ])
SelectNoneFrame == Frame("object_select", [ objectIds |-> << >> ])
SelectBothFrame ==
    Frame("object_select", [ objectIds |-> << LightName, MeshName, LightName >> ])
SelectDefaultFrame == Frame("object_select", EmptyMap)
JoinedFrame(sender) ==
    Frame("joined", [ clientId |-> "c7", sessionId |-> "scene42",
                      _senderType |-> sender ])
SceneRequestFrame(sender) ==
    Frame("scene_request", [ requestedByType |-> "bisect", _senderType |-> sender ])
\* ai_execute commands
Command(action, params) ==
    Frame("ai_execute", [ action |-> action, params |-> params, _senderType |-> "ai" ])
CreateBallFrame ==
    Command("create_object", [ type |-> "sphere", name |-> "AI_Ball",
                               position |-> << 0, 0, 1 >> ])
CreateLampFrame ==        \* asks for the name of an object of the scene
    Command("create_object", [ type |-> "CUBE", name |-> LightName ])
CreateDefaultFrame ==
    Frame("ai_execute", [ action |-> "create_object" ])
CreatePyramidFrame ==
    Command("create_object", [ type |-> "pyramid", name |-> "AI_Pyramid" ])
SubdivideFrame ==
    Command("modify_mesh", [ objectId |-> MeshName, modifier |-> "subdivide", levels |-> 3 ])
BevelFrame(id) ==
    Command("modify_mesh", [ objectId |-> id, modifier |-> "bevel", width |-> 2 ])
SmoothFrame ==
    Command("modify_mesh", [ objectId |-> MeshName, modifier |-> "smooth" ])
DeleteFrame(id) == Command("delete_object", [ objectId |-> id ])
DeleteByNameFrame == Command("delete_object", [ name |-> LightName ])
ExplodeFrame == Command("explode", [ objectId |-> MeshName ])
NoActionFrame == Frame("ai_execute", [ params |-> [ objectId |-> MeshName ] ])
ClientJoinedFrame == Frame("client_joined", [ clientType |-> "ai" ])
ClientLeftFrame   == Frame("client_left", [ clientType |-> "ai" ])
HologramFrame     == Frame("hologram", [ objectId |-> MeshName, position |-> << 9, 9, 9 >> ])
PingFrame         == Frame("ping", EmptyMap)

\* --------------------------------------------------------- receive handlers
\* What one frame's handler does to the host state it can touch.
HostState == [ client_id |-> client_id, objs |-> objs, active |-> active,
               materials |-> materials,
               ignore |-> ignore_next_update, calls |-> << >> ]

\* apply_transform reading the wire rotation as (w, x, y, z)
apply_transform_wxyz(h, obj_name, position, rotation, scale) ==
    IF obj_name \notin DOMAIN h.objs THEN h
    ELSE
      LET h1 == [ h EXCEPT !.ignore = @ \cup { obj_name } ]
          h2 == [ h1 EXCEPT !.objs[obj_name].location = position ]
          q  == Quaternion(<< rotation[1], rotation[2], rotation[3], rotation[4] >>)
          h3 == IF h.objs[obj_name].rotation_mode = "QUATERNION"
                THEN [ h2 EXCEPT !.objs[obj_name].rotation_quaternion = q ]
                ELSE [ h2 EXCEPT !.objs[obj_name].rotation_euler = to_euler(q) ]
          h4 == [ h3 EXCEPT !.objs[obj_name].scale = scale ]
      IN  IF Len(position) # 3 THEN h1
          ELSE IF Len(rotation) < 4 THEN h2
          ELSE IF Len(scale) # 3 THEN h3
          ELSE h4

\* apply_transform moving the object by the position instead of to it
apply_transform_additive(h, obj_name, position, rotation, scale) ==
    IF obj_name \notin DOMAIN h.objs THEN h
    ELSE
      LET loc == h.objs[obj_name].location
          h1 == [ h EXCEPT !.ignore = @ \cup { obj_name } ]
          h2 == [ h1 EXCEPT !.objs[obj_name].location =
                    << loc[1] + position[1], loc[2] + position[2], loc[3] + position[3] >> ]
          q  == Quaternion(<< rotation[4], rotation[1], rotation[2], rotation[3] >>)
          h3 == IF h.objs[obj_name].rotation_mode = "QUATERNION"
                THEN [ h2 EXCEPT !.objs[obj_name].rotation_quaternion = q ]
                ELSE [ h2 EXCEPT !.objs[obj_name].rotation_euler = to_euler(q) ]
          h4 == [ h3 EXCEPT !.objs[obj_name].scale = scale ]
      IN  IF Len(position) # 3 THEN h1
          ELSE IF Len(rotation) < 4 THEN h2
          ELSE IF Len(scale) # 3 THEN h3
          ELSE h4

\* apply_transform(obj_name, position, rotation, scale); a Vector or Quaternion
\* built from a list of the wrong length raises and leaves the rest undone.
apply_transform(h, obj_name, position, rotation, scale) ==
    IF obj_name \notin DOMAIN h.objs THEN h
    ELSE
      LET h1 == [ h EXCEPT !.ignore = @ \cup { obj_name } ]
          h2 == [ h1 EXCEPT !.objs[obj_name].location = position ]
          q  == Quaternion(<< rotation[4], rotation[1], rotation[2], rotation[3] >>)
          h3 == IF h.objs[obj_name].rotation_mode = "QUATERNION"
                THEN [ h2 EXCEPT !.objs[obj_name].rotation_quaternion = q ]
                ELSE [ h2 EXCEPT !.objs[obj_name].rotation_euler = to_euler(q) ]
          h4 == [ h3 EXCEPT !.objs[obj_name].scale = scale ]
      IN  IF Len(position) # 3 THEN h1
          ELSE IF Len(rotation) < 4 THEN h2
          ELSE IF Len(scale) # 3 THEN h3
          ELSE h4

\* the object_select branch: deselect all, then select each id that exists
RECURSIVE SelectEach(_, _)
SelectEach(h, ids) ==
    IF ids = << >> THEN h
    ELSE LET id == Head(ids)
             h1 == IF id \in DOMAIN h.objs
                   THEN [ h EXCEPT !.objs[id].select = TRUE, !.active = id ]
                   ELSE h
         IN  SelectEach(h1, Tail(ids))

\* the selection is left as it is before the ids are selected
select_all_keep(h) == h

\* bpy.ops.object.select_all(action='DESELECT')
select_all_deselect(h) ==
    [ h EXCEPT !.objs = [ n \in DOMAIN h.objs |-> [ h.objs[n] EXCEPT !.select = FALSE ] ] ]

SelectedNames(os) == { n \in DOMAIN os : os[n].select }

\* send_scene_state()
send_scene_state(h) ==
    IF ~connected THEN h
    ELSE [ h EXCEPT !.calls = Append(@, send_message("scene_state",
             [ objects   |-> { n \in DOMAIN h.objs : h.objs[n].type = "MESH" },
               lights    |-> { n \in DOMAIN h.objs : h.objs[n].type = "LIGHT" },
               selection |-> SelectedNames(h.objs) ])) ]

\* get_object_data(obj): material is the name of the first material slot
\* ("" when the object has none and the member is left out)
get_object_data(os, name) ==
    LET t == get_object_transform(os[name])
    IN  [ id |-> name, name |-> name, type |-> os[name].type,
          position |-> t.position, rotation |-> t.rotation, scale |-> t.scale,
          material |-> os[name].material ]

\* the inputs of a new material's Principled BSDF node, in tenths
DefaultBSDF == [ color |-> << 8, 8, 8 >>, roughness |-> 5, metalness |-> 0 ]

\* the three `if "..." in properties` assignments to the BSDF inputs
SetBSDF(node, properties) ==
    [ color     |-> IF "color" \in DOMAIN properties
                    THEN SubSeq(properties["color"], 1, 3) ELSE node.color,
      roughness |-> Get(properties, "roughness", node.roughness),
      metalness |-> Get(properties, "metalness", node.metalness) ]

\* apply_material(obj_name, material_data)
apply_material(h, obj_name, material_data) ==
    IF obj_name \notin DOMAIN h.objs THEN h
    ELSE IF h.objs[obj_name].type # "MESH" THEN h
    ELSE LET mat_name == Get(material_data, "name", "BisectMaterial")
             node == IF mat_name \in DOMAIN h.materials
                     THEN h.materials[mat_name] ELSE DefaultBSDF
             mats == [ n \in DOMAIN h.materials \cup { mat_name } |->
                         IF n = mat_name THEN SetBSDF(node, material_data)
                         ELSE h.materials[n] ]
         IN  [ h EXCEPT !.materials = mats, !.objs[obj_name].material = mat_name ]

\* the material_update branch of process_incoming_messages
material_update(h, payload) ==
    LET mat_id == Get(payload, "materialId", "")
    IN  IF mat_id \notin DOMAIN h.materials THEN h
        ELSE [ h EXCEPT !.materials[mat_id] =
                 SetBSDF(@, Get(payload, "properties", EmptyMap)) ]

\* str.upper() on the words the commands use
upper(x) ==
    CASE x \in { "cube", "Cube", "CUBE" }       -> "CUBE"
      [] x \in { "sphere", "Sphere", "SPHERE" } -> "SPHERE"
      [] x \in { "subdivide", "SUBDIVIDE" }     -> "SUBDIVIDE"
      [] x \in { "bevel", "BEVEL" }             -> "BEVEL"
      [] x \in { "smooth", "SMOOTH" }           -> "SMOOTH"
      [] x = "pyramid"                          -> "PYRAMID"
      [] OTHER                                  -> x

\* the shapes handle_ai_execute has a primitive_*_add call for, with the name
\* the host gives a new object of that shape
Primitives == { "CUBE", "SPHERE", "CYLINDER", "PLANE", "CONE", "TORUS" }
PrimitiveName(obj_type) ==
    CASE obj_type = "CUBE"     -> "Cube"
      [] obj_type = "SPHERE"   -> "Sphere"
      [] obj_type = "CYLINDER" -> "Cylinder"
      [] obj_type = "PLANE"    -> "Plane"
      [] obj_type = "CONE"     -> "Cone"
      [] obj_type = "TORUS"    -> "Torus"

\* the host keeps object names unique: a name that is taken gets the first
\* free numeric suffix
Suffixes == << ".001", ".002", ".003", ".004", ".005" >>
UniqueName(name, taken) ==
    IF name \notin taken THEN name
    ELSE LET i == CHOOSE j \in DOMAIN Suffixes :
                    /\ (name \o Suffixes[j]) \notin taken
                    /\ \A k \in 1..(j - 1) : (name \o Suffixes[k]) \in taken
         IN  name \o Suffixes[i]

\* bpy.ops.mesh.primitive_*_add(location=...): a new mesh object, made the
\* only selected object and the active one
primitive_add(h, obj_type, location) ==
    LET nm == UniqueName(PrimitiveName(obj_type), DOMAIN h.objs)
        os == [ n \in DOMAIN h.objs \cup { nm } |->
                  IF n = nm
                  THEN [ NewObject("MESH", "XYZ") EXCEPT !.location = location,
                                                         !.shape = obj_type,
                                                         !.select = TRUE ]
                  ELSE [ h.objs[n] EXCEPT !.select = FALSE ] ]
    IN  [ h EXCEPT !.objs = os, !.active = nm ]

\* the new object keeps the name the host gave it
Rename_skip(h, old, name) == h

\* obj.name = name, for the object now called old
Rename(h, old, name) ==
    LET nm == IF name = old THEN old ELSE UniqueName(name, DOMAIN h.objs \ { old })
        os == [ n \in (DOMAIN h.objs \ { old }) \cup { nm } |->
                  IF n = nm THEN h.objs[old] ELSE h.objs[n] ]
    IN  [ h EXCEPT !.objs = os, !.active = IF h.active = old THEN nm ELSE h.active ]

\* the object is announced as deleted and kept
Remove_keep(h, name) == h

\* bpy.data.objects.remove(obj, do_unlink=True)
Remove(h, name) ==
    [ h EXCEPT !.objs = [ n \in DOMAIN h.objs \ { name } |-> h.objs[n] ],
               !.active = IF h.active = name THEN "" ELSE h.active ]

\* a modifier as bpy.ops.object.modifier_add creates it
NewModifier(type) == [ type |-> type, levels |-> 1, width |-> 1 ]

\* obj.modifiers[-1].<attr> = value; raises when the object has no modifier or
\* the last one has no such attribute, which leaves the object as it is
SetLastModifier(h, name, attr, value) ==
    LET ms == h.objs[name].modifiers
        n  == Len(ms)
    IN  IF n = 0 THEN h
        ELSE IF attr = "levels" /\ ms[n].type = "SUBSURF"
             THEN [ h EXCEPT !.objs[name].modifiers[n].levels = value ]
        ELSE IF attr = "width" /\ ms[n].type = "BEVEL"
             THEN [ h EXCEPT !.objs[name].modifiers[n].width = value ]
        ELSE h

\* bpy.ops.object.modifier_add(type=...): acts on the active object; the
\* operator's poll fails without one, or on an object that takes no modifier
modifier_add(h, type) ==
    IF h.active = "" THEN h
    ELSE IF h.objs[h.active].type # "MESH" THEN h
    ELSE [ h EXCEPT !.objs[h.active].modifiers = Append(@, NewModifier(type)) ]

ModifierAddRaises(h) == h.active = "" \/ h.objs[h.active].type # "MESH"

\* bpy.ops.object.shade_smooth(): acts on the selected mesh objects
shade_smooth(h) ==
    [ h EXCEPT !.objs = [ n \in DOMAIN h.objs |->
        IF h.objs[n].select /\ h.objs[n].type = "MESH"
        THEN [ h.objs[n] EXCEPT !.smooth = TRUE ] ELSE h.objs[n] ] ]

\* send_message from inside a handler
Sending(h, msg_type, payload) ==
    [ h EXCEPT !.calls = Append(@, send_message(msg_type, payload)) ]

\* a handler that answers the sender with an error envelope
handle_ai_execute_reply(h, payload) ==
    Sending(h, "error", [ message |-> "unknown action" ])

\* handle_ai_execute(payload)
handle_ai_execute(h, payload) ==
    LET action == Get(payload, "action", "")
        params == Get(payload, "params", EmptyMap)
    IN  IF action = "create_object"
        THEN LET obj_type == upper(Get(params, "type", "CUBE"))
                 name     == Get(params, "name", "AI_Object")
                 location == Get(params, "position", << 0, 0, 0 >>)
                 h1 == IF obj_type \in Primitives
                       THEN primitive_add(h, obj_type, location) ELSE h
             IN  IF obj_type \in Primitives /\ Len(location) # 3
                 THEN h                         \* the operator call raises
                 ELSE IF h1.active = "" THEN h1
                 ELSE LET h2 == Rename(h1, h1.active, name)
                      IN  Sending(h2, "object_add", get_object_data(h2.objs, h2.active))
        ELSE IF action = "delete_object"
        THEN LET first    == Get(params, "objectId", "")
                 obj_name == IF first # "" THEN first ELSE Get(params, "name", "")
             IN  IF obj_name \notin DOMAIN h.objs THEN h
                 ELSE Sending(Remove(h, obj_name), "object_delete",
                              [ objectId |-> obj_name ])
        ELSE IF action = "modify_mesh"
        THEN LET obj_name == Get(params, "objectId", "")
                 modifier == upper(Get(params, "modifier", ""))
             IN  IF obj_name \notin DOMAIN h.objs THEN h
                 ELSE IF h.objs[obj_name].type # "MESH" THEN h
                 ELSE IF modifier = "SUBDIVIDE"
                      THEN LET h1 == [ h EXCEPT !.active = obj_name ]
                           IN  SetLastModifier(modifier_add(h1, "SUBSURF"), obj_name,
                                               "levels", Get(params, "levels", 2))
                 ELSE IF modifier = "BEVEL"
                      THEN IF ModifierAddRaises(h) THEN h
                           ELSE SetLastModifier(modifier_add(h, "BEVEL"), obj_name,
                                                "width", Get(params, "width", 1))
                 ELSE IF modifier = "SMOOTH" THEN shade_smooth(h)
                 ELSE h
        ELSE h

\* a dispatcher that greets a joining client with the scene state
Route_greeting(h, raw) ==
    IF raw.hasType /\ raw.type = "client_joined" THEN send_scene_state(h) ELSE h

\* the branches of process_incoming_messages on msg_type
Route(h, raw) ==
    LET msg_type == raw.type
        payload  == raw.payload
    IN  IF ~raw.hasType THEN h             \* msg_type is None: no branch
        ELSE IF msg_type = "joined"
             THEN [ h EXCEPT !.client_id = Get(payload, "clientId", "") ]
        ELSE IF msg_type = "scene_request" THEN send_scene_state(h)
        ELSE IF msg_type = "transform"
             THEN apply_transform(h, Get(payload, "objectId", ""),
                                  Get(payload, "position", << 0, 0, 0 >>),
                                  Get(payload, "rotation", << 0, 0, 0, 1 >>),
                                  Get(payload, "scale", << 1, 1, 1 >>))
        ELSE IF msg_type = "object_select"
             THEN SelectEach(select_all_deselect(h), Get(payload, "objectIds", << >>))
        ELSE IF msg_type = "material_assign"
             THEN apply_material(h, Get(payload, "objectId", ""),
                                 Get(payload, "material", EmptyMap))
        ELSE IF msg_type = "material_update" THEN material_update(h, payload)
        ELSE IF msg_type = "ai_execute" THEN handle_ai_execute(h, payload)
        ELSE h                             \* client_joined, client_left: print only

\* json.loads(raw), message.get and payload.get go through
Decodes(raw) == raw.json = "object" /\ raw.payloadKind # "null"

\* the loop body without the check of the sender
Dispatch_unfiltered(h, raw) == IF Decodes(raw) THEN Route(h, raw) ELSE h

\* one pass of the loop body of process_incoming_messages, after get_nowait
Dispatch(h, raw) ==
    IF ~Decodes(raw) THEN h                \* raises into the except clause
    ELSE IF Get(raw.payload, "_senderType", "") = OwnRole THEN h
    ELSE Route(h, raw)

\* the try block around the whole loop: a frame that raises ends the drain
LoopAfter_abort(raw) ==
    IF raw.json # "object" \/ raw.payloadKind = "null" THEN "select" ELSE "drain"

\* where the loop goes after the frame: the try block is inside the while loop,
\* so the loop tests the queue again whatever the frame did
LoopAfter(raw) == "drain"

RECURSIVE Wired(_)
Wired(cs) == IF cs = << >> THEN << >> ELSE Head(cs).wired \o Wired(Tail(cs))

\* ------------------------------------------------------------- observation
\* a step that has nothing to record as its argument
NoArg == [ none |-> TRUE ]

Op(name, ret, raised, arg) ==
    [ op |-> name, ret |-> ret, raised |-> raised, arg |-> arg,
      conn |-> None, first |-> FALSE, again |-> FALSE, repeat |-> FALSE ]

\* the steps in which on_error or on_close runs
ErrorCallbacks == { "on_error", "on_close", "on_open_error" }

\* The step was `op` and put `frames` on connection t.  conn / first say on
\* which connection the step sent, and whether what it sent is the first
\* traffic of that connection.
Observe(op, cs, frames, t) ==
    /\ lastOp' = IF frames # << >>
                 THEN [ op EXCEPT !.conn = t, !.first = (t \notin wireUsed) ]
                 ELSE op
    /\ calls' = cs
    /\ sent' = frames
    /\ wireUsed' = IF frames # << >> THEN wireUsed \cup { t } ELSE wireUsed
    /\ dropped' = IF op.op \in ErrorCallbacks THEN TRUE
                  ELSE IF op.op = "start_connection" /\ op.ret THEN FALSE
                  ELSE dropped
    /\ stopped' = IF op.op = "stop_connection" THEN TRUE
                  ELSE IF op.op = "start_connection" THEN FALSE
                  ELSE stopped

\* a step of the host context that made the send_message calls cs
ObserveHost(op, cs) == Observe(op, cs, Wired(cs), ws)

\* a step that sent nothing
ObserveQuiet(op) == Observe(op, << >>, << >>, None)

\* ------------------------------------------------------------------- Init
InitWith(modes) ==
    /\ ws = None
    /\ connected = FALSE
    /\ session_id = ""
    /\ client_id = ""
    /\ message_queue = << >>
    /\ ws_thread = None
    /\ last_sync_time = 0
    /\ selected_objects = {}
    /\ ignore_next_update = {}
    /\ thr = [ t \in Tids |-> [ pc |-> "unborn", sid |-> "", sock |-> "none" ] ]
    /\ \E mode \in modes :
         objs = [ n \in ObjNames |->
                    IF n = MeshName THEN NewObject("MESH", mode)
                                    ELSE NewObject("LIGHT", "XYZ") ]
    /\ active = ""
    /\ materials = EmptyMap
    /\ timers = 0
    /\ now = sync_interval        \* the wall clock is far from the epoch
    /\ hostpc = "idle"
    /\ sent = << >>
    /\ calls = << >>
    /\ lastOp = Op("init", FALSE, FALSE, NoArg)
    /\ wireUsed = {}
    /\ echo = [ n \in ObjNames |-> "idle" ]
    /\ lastEmit = -1
    /\ dropped = FALSE
    /\ stopped = FALSE

Init == InitWith({"QUATERNION", "XYZ"})

\* ---------------------------------------------------------- network thread
\* a thread whose function has returned
Dead == [ pc |-> "dead", sid |-> "", sock |-> "closed" ]

IsAlive(t) == thr[t].pc \notin {"unborn", "dead"}

netUnchanged == << session_id, client_id, ws_thread, last_sync_time,
                   selected_objects, ignore_next_update, objs, active, materials, timers,
                   now, hostpc, echo, lastEmit >>

\* ws_thread_func: sync_state.ws = websocket.WebSocketApp(...)
ThreadCreate(t) ==
    /\ thr[t].pc = "new"
    /\ thr' = [ thr EXCEPT ![t].pc = "created" ]
    /\ ws' = t
    /\ UNCHANGED << connected, message_queue >>
    /\ UNCHANGED netUnchanged
    /\ ObserveQuiet(Op("thread_create", FALSE, FALSE, NoArg))

\* run_forever: the connection is established
Handshake(t) ==
    /\ thr[t].pc = "created" /\ thr[t].sock = "none"
    /\ thr' = [ thr EXCEPT ![t].pc = "handshaken", ![t].sock = "open" ]
    /\ UNCHANGED << ws, connected, message_queue >>
    /\ UNCHANGED netUnchanged
    /\ ObserveQuiet(Op("handshake", FALSE, FALSE, NoArg))

\* run_forever: the connection cannot be established; on_error, on_close
ConnectFail(t) ==
    /\ thr[t].pc = "created"
    /\ thr' = [ thr EXCEPT ![t] = Dead ]
    /\ connected' = FALSE
    /\ UNCHANGED << ws, message_queue >>
    /\ UNCHANGED netUnchanged
    /\ ObserveQuiet(Op("on_error", FALSE, FALSE, NoArg))

\* on_open, first statement: sync_state.connected = True
OnOpenFlag(t) ==
    /\ thr[t].pc = "handshaken"
    /\ thr' = [ thr EXCEPT ![t].pc = "flagged" ]
    /\ connected' = TRUE
    /\ UNCHANGED << ws, message_queue >>
    /\ UNCHANGED netUnchanged
    /\ ObserveQuiet(Op("on_open", FALSE, FALSE, NoArg))

\* the join envelope on_open builds
JoinMessage(t) ==
    create_message("join", [ sessionId |-> thr[t].sid, clientType |-> "blender" ])

\* on_open, second statement: ws.send(create_message(JOIN, ...)) on its own
\* connection; a send on a closed socket raises into the library's callback
\* wrapper, which reports it to on_error
OnOpenJoin(t) ==
    /\ thr[t].pc = "flagged"
    /\ thr' = [ thr EXCEPT ![t].pc = "open" ]
    /\ connected' = IF thr[t].sock = "open" THEN connected ELSE FALSE
    /\ UNCHANGED << ws, message_queue >>
    /\ UNCHANGED netUnchanged
    /\ Observe(Op(IF thr[t].sock = "open" THEN "on_open_join" ELSE "on_open_error",
                  thr[t].sock = "open", FALSE, NoArg), << >>,
               IF thr[t].sock = "open" THEN << JoinMessage(t) >> ELSE << >>, t)

\* on_message decoding the frame and applying it from the network thread
OnMessage_direct(t, f) ==
    /\ thr[t].pc = "open" /\ thr[t].sock = "open"
    /\ LET h == Dispatch(HostState, f)
       IN  /\ client_id' = h.client_id
           /\ objs' = h.objs
           /\ active' = h.active
           /\ materials' = h.materials
           /\ ignore_next_update' = h.ignore
    /\ UNCHANGED << ws, connected, thr, message_queue, session_id, ws_thread,
                    last_sync_time, selected_objects, timers, now, hostpc,
                    echo, lastEmit >>
    /\ ObserveQuiet(Op("on_message", FALSE, FALSE, f))

\* on_message putting the frame at the head of the queue
OnMessage_lifo(t, f) ==
    /\ thr[t].pc = "open" /\ thr[t].sock = "open"
    /\ Len(message_queue) < MaxQueue
    /\ message_queue' = << f >> \o message_queue
    /\ UNCHANGED << ws, connected, thr >>
    /\ UNCHANGED netUnchanged
    /\ ObserveQuiet(Op("on_message", FALSE, FALSE, f))

\* on_message: sync_state.message_queue.put(message)
OnMessage(t, f) ==
    /\ thr[t].pc = "open" /\ thr[t].sock = "open"
    /\ Len(message_queue) < MaxQueue
    /\ message_queue' = Append(message_queue, f)
    /\ UNCHANGED << ws, connected, thr >>
    /\ UNCHANGED netUnchanged
    /\ ObserveQuiet(Op("on_message", FALSE, FALSE, f))

\* the peer or the transport ends the connection
TransportDrop(t) ==
    /\ thr[t].sock = "open"
    /\ thr' = [ thr EXCEPT ![t].sock = "closed" ]
    /\ UNCHANGED << ws, connected, message_queue >>
    /\ UNCHANGED netUnchanged
    /\ ObserveQuiet(Op("drop", FALSE, FALSE, NoArg))

\* on_close followed by a new attempt of the same thread
OnClose_reconnect(t) ==
    /\ thr[t].pc = "open" /\ thr[t].sock = "closed"
    /\ thr' = [ thr EXCEPT ![t].pc = "created", ![t].sock = "none" ]
    /\ connected' = FALSE
    /\ UNCHANGED << ws, message_queue >>
    /\ UNCHANGED netUnchanged
    /\ ObserveQuiet(Op("on_close", FALSE, FALSE, NoArg))

\* on_error / on_close once the receive loop sees the closed socket
OnClose(t) ==
    /\ thr[t].pc = "open" /\ thr[t].sock = "closed"
    /\ thr' = [ thr EXCEPT ![t] = Dead ]
    /\ connected' = FALSE
    /\ UNCHANGED << ws, message_queue >>
    /\ UNCHANGED netUnchanged
    /\ ObserveQuiet(Op("on_close", FALSE, FALSE, NoArg))

\* ------------------------------------------------------------ host context
\* ws.close() on connection t, called from the host context: an open socket is
\* closed; before the socket exists the request may or may not stop the attempt
CloseOutcomes(t) ==
    IF thr[t].sock = "open" THEN { [ thr EXCEPT ![t].sock = "closed" ] }
    ELSE IF thr[t].pc = "created" /\ thr[t].sock = "none"
         THEN { thr, [ thr EXCEPT ![t].sock = "closed" ] }
         ELSE { thr }

FreshTid == CHOOSE t \in Tids : thr[t].pc = "unborn" /\ \A u \in Tids : u < t => thr[u].pc # "unborn"

\* start_connection without the is_alive check
start_connection_unguarded(sid, ok) ==
    /\ ok = TRUE
    /\ \E t \in Tids : thr[t].pc = "unborn"
    /\ session_id' = sid
    /\ ws_thread' = FreshTid
    /\ thr' = [ thr EXCEPT ![FreshTid] = [ pc |-> "new", sid |-> sid, sock |-> "none" ] ]

\* start_connection storing the session id before the is_alive check
start_connection_overwrite(sid, ok) ==
    IF ws_thread # None /\ IsAlive(ws_thread)
    THEN /\ ok = FALSE
         /\ session_id' = sid
         /\ UNCHANGED << ws_thread, thr >>
    ELSE /\ ok = TRUE
         /\ \E t \in Tids : thr[t].pc = "unborn"
         /\ session_id' = sid
         /\ ws_thread' = FreshTid
         /\ thr' = [ thr EXCEPT ![FreshTid] = [ pc |-> "new", sid |-> sid, sock |-> "none" ] ]

\* start_connection(url, session_id) returning ok
start_connection(sid, ok) ==
    IF ws_thread # None /\ IsAlive(ws_thread)
    THEN /\ ok = FALSE
         /\ UNCHANGED << session_id, ws_thread, thr >>
    ELSE /\ ok = TRUE
         /\ \E t \in Tids : thr[t].pc = "unborn"
         /\ session_id' = sid
         /\ ws_thread' = FreshTid
         /\ thr' = [ thr EXCEPT ![FreshTid] = [ pc |-> "new", sid |-> sid, sock |-> "none" ] ]

\* BISECT_OT_connect.execute
ConnectOp(sid) ==
    /\ hostpc = "idle"
    /\ \E ok \in BOOLEAN :
         /\ start_connection(sid, ok)
         /\ timers' = IF ok THEN timers + 1 ELSE timers
         /\ ObserveQuiet(Op("start_connection", ok, FALSE, [ sid |-> sid ]))
    /\ UNCHANGED << ws, connected, client_id, message_queue, last_sync_time,
                    selected_objects, ignore_next_update, objs, active, materials, now,
                    hostpc, echo, lastEmit >>

\* stop_connection calling close() on whatever sync_state.ws holds
stop_connection_unguarded(raised) ==
    /\ raised = (ws = None)
    /\ IF raised
       THEN UNCHANGED << thr, connected, session_id, client_id >>
       ELSE /\ thr' \in CloseOutcomes(ws)
            /\ connected' = FALSE
            /\ session_id' = ""
            /\ client_id' = ""

\* stop_connection(), raising or not
stop_connection(raised) ==
    /\ raised = FALSE
    /\ thr' \in (IF ws # None THEN CloseOutcomes(ws) ELSE { thr })
    /\ connected' = FALSE
    /\ session_id' = ""
    /\ client_id' = ""

\* BISECT_OT_disconnect.execute
DisconnectOp ==
    /\ hostpc = "idle"
    /\ \E raised \in BOOLEAN :
         /\ stop_connection(raised)
         /\ timers' = IF ~raised /\ timers > 0 THEN timers - 1 ELSE timers
         /\ ObserveQuiet([ Op("stop_connection", FALSE, raised, NoArg) EXCEPT
                           !.again = (lastOp.op = "stop_connection") ])
    /\ UNCHANGED << ws, message_queue, ws_thread, last_sync_time,
                    selected_objects, ignore_next_update, objs, active, materials, now,
                    hostpc, echo, lastEmit >>

\* timer_callback is entered
TimerStart ==
    /\ hostpc = "idle" /\ timers > 0
    /\ hostpc' = "drain"
    /\ UNCHANGED << sessionVars, sceneVars, thr, timers, now, echo, lastEmit >>
    /\ ObserveQuiet(Op("timer_callback", FALSE, FALSE, NoArg))

\* the entities a frame's handler applied a remote transform to
AppliedBy(raw) ==
    IF /\ raw.json = "object" /\ raw.payloadKind = "map" /\ raw.hasType
       /\ raw.type = "transform"
       /\ Get(raw.payload, "_senderType", "") # OwnRole
       /\ Get(raw.payload, "objectId", "") \in DOMAIN objs
    THEN { raw.payload.objectId } ELSE {}

\* the frames whose pass through the loop body ends in the except clause:
\* json.loads, message.get or payload.get raises, or apply_transform does on a
\* list of the wrong length
Raises(raw) ==
    \/ ~Decodes(raw)
    \/ /\ raw.hasType /\ raw.type = "transform"
       /\ Get(raw.payload, "_senderType", "") # OwnRole
       /\ Get(raw.payload, "objectId", "") \in DOMAIN objs
       /\ \/ Len(Get(raw.payload, "position", << 0, 0, 0 >>)) # 3
          \/ Len(Get(raw.payload, "rotation", << 0, 0, 0, 1 >>)) < 4
          \/ Len(Get(raw.payload, "scale", << 1, 1, 1 >>)) # 3

\* the progress of an entity once apply_transform has acted on it: "applied"
\* after one apply, "twice" when an earlier apply has had no notification yet
Applied(e) == IF e \in { "applied", "twice", "owed" } THEN "twice" ELSE "applied"

\* the progress of an entity once a notification for it has been handled: of
\* two applies one notification is still owed
Notified(e) ==
    IF e = "twice" THEN "owed" ELSE IF e = "applied" THEN "seen" ELSE "idle"

\* the loop looking at the oldest frame and taking it off the queue only once
\* it has been handled without an exception
ProcessFrame_peek ==
    /\ hostpc = "drain" /\ message_queue # << >>
    /\ LET raw == Head(message_queue)
           h   == Dispatch(HostState, raw)
       IN  /\ message_queue' = IF Raises(raw) THEN message_queue ELSE Tail(message_queue)
           /\ hostpc' = LoopAfter(raw)
           /\ client_id' = h.client_id
           /\ objs' = h.objs
           /\ active' = h.active
           /\ materials' = h.materials
           /\ ignore_next_update' = h.ignore
           /\ echo' = [ n \in ObjNames |-> IF n \in AppliedBy(raw) THEN Applied(echo[n]) ELSE echo[n] ]
           /\ ObserveHost([ Op("dispatch", FALSE, FALSE, raw) EXCEPT
                             !.again = (lastOp.op = "dispatch" /\ Malformed(lastOp.arg)),
                             !.repeat = (lastOp.op = "dispatch" /\ lastOp.arg = raw) ],
                           h.calls)
    /\ UNCHANGED << ws, connected, session_id, ws_thread, last_sync_time,
                    selected_objects, thr, timers, now, lastEmit >>

\* process_incoming_messages: one iteration of the while loop
ProcessFrame ==
    /\ hostpc = "drain" /\ message_queue # << >>
    /\ LET raw == Head(message_queue)
           h   == Dispatch(HostState, raw)
       IN  /\ message_queue' = Tail(message_queue)
           /\ hostpc' = LoopAfter(raw)
           /\ client_id' = h.client_id
           /\ objs' = h.objs
           /\ active' = h.active
           /\ materials' = h.materials
           /\ ignore_next_update' = h.ignore
           /\ echo' = [ n \in ObjNames |-> IF n \in AppliedBy(raw) THEN Applied(echo[n]) ELSE echo[n] ]
           /\ ObserveHost([ Op("dispatch", FALSE, FALSE, raw) EXCEPT
                             !.again = (lastOp.op = "dispatch" /\ Malformed(lastOp.arg)),
                             !.repeat = (lastOp.op = "dispatch" /\ lastOp.arg = raw) ],
                           h.calls)
    /\ UNCHANGED << ws, connected, session_id, ws_thread, last_sync_time,
                    selected_objects, thr, timers, now, lastEmit >>

\* ------------------------------------------------------- the legacy add-on
\* tools/bridge-server/blender-addon/bisect_sync.py: the same connection and
\* timer code, a dispatcher of its own.
\* apply_transform(obj_name, position, rotation, scale): the lists are
\* assigned as they come; a list of the wrong length raises.
legacy_apply_transform(h, obj_name, position, rotation, scale) ==
    IF obj_name \notin DOMAIN h.objs THEN h
    ELSE
      LET h2 == [ h EXCEPT !.objs[obj_name].location = position ]
          q  == Quaternion(rotation)
          h3 == IF h.objs[obj_name].rotation_mode = "QUATERNION"
                THEN [ h2 EXCEPT !.objs[obj_name].rotation_quaternion = rotation ]
                ELSE [ h2 EXCEPT !.objs[obj_name].rotation_euler = to_euler(q) ]
          h4 == [ h3 EXCEPT !.objs[obj_name].scale = scale ]
      IN  IF Len(position) # 3 THEN h
          ELSE IF Len(rotation) # 4 THEN h2
          ELSE IF Len(scale) # 3 THEN h3
          ELSE h4

\* send_scene_state() of the legacy add-on: the MESH objects only
legacy_send_scene_state(h) ==
    IF ~connected \/ ws = None THEN h
    ELSE [ h EXCEPT !.calls = Append(@, send_message("scene_state",
             [ objects |-> { n \in DOMAIN h.objs : h.objs[n].type = "MESH" } ])) ]

\* one pass of the loop body of the legacy process_incoming_messages: no check
\* of the sender, no EchoGuard
legacy_Dispatch(h, raw) ==
    IF ~Decodes(raw) \/ ~raw.hasType THEN h
    ELSE IF raw.type = "scene_request" THEN legacy_send_scene_state(h)
    ELSE IF raw.type = "transform"
         THEN legacy_apply_transform(h, Get(raw.payload, "objectId", ""),
                                     Get(raw.payload, "position", << 0, 0, 0 >>),
                                     Get(raw.payload, "rotation", << 0, 0, 0, 1 >>),
                                     Get(raw.payload, "scale", << 1, 1, 1 >>))
    ELSE IF raw.type = "object_select"
         THEN SelectEach(select_all_deselect(h), Get(raw.payload, "objectIds", << >>))
    ELSE h                                 \* joined, client_joined, client_left: print only

\* the legacy process_incoming_messages: one iteration of the while loop
LegacyProcessFrame ==
    /\ hostpc = "drain" /\ message_queue # << >>
    /\ LET raw == Head(message_queue)
           h   == legacy_Dispatch(HostState, raw)
       IN  /\ message_queue' = Tail(message_queue)
           /\ objs' = h.objs
           /\ active' = h.active
           /\ ObserveHost(Op("legacy_dispatch", FALSE, FALSE, raw), h.calls)
    /\ UNCHANGED << ws, connected, session_id, client_id, ws_thread, last_sync_time,
                    selected_objects, ignore_next_update, materials, thr, timers,
                    now, hostpc, echo, lastEmit >>

\* send_selection(object_names)
send_selection(object_names) ==
    send_message("object_select", [ objectIds |-> object_names ])

\* the selection check without the update of the snapshot
TimerFinish_stale ==
    /\ (hostpc = "drain" /\ message_queue = << >>) \/ hostpc = "select"
    /\ hostpc' = "idle"
    /\ LET current_selection == SelectedNames(objs)
       IN  IF current_selection # selected_objects
           THEN ObserveHost(Op("selection", TRUE, FALSE, NoArg),
                            << send_selection(current_selection) >>)
           ELSE ObserveQuiet(Op("selection", FALSE, FALSE, NoArg))
    /\ UNCHANGED << ws, connected, session_id, client_id, message_queue, ws_thread,
                    last_sync_time, ignore_next_update, sceneVars, thr, timers,
                    now, echo, lastEmit, selected_objects >>

\* timer_callback after the queue is drained: the selection check
TimerFinish ==
    /\ (hostpc = "drain" /\ message_queue = << >>) \/ hostpc = "select"
    /\ hostpc' = "idle"
    /\ LET current_selection == SelectedNames(objs)
       IN  IF current_selection # selected_objects
           THEN /\ selected_objects' = current_selection
                /\ ObserveHost(Op("selection", TRUE, FALSE, NoArg),
                               << send_selection(current_selection) >>)
           ELSE /\ UNCHANGED selected_objects
                /\ ObserveQuiet(Op("selection", FALSE, FALSE, NoArg))
    /\ UNCHANGED << ws, connected, session_id, client_id, message_queue, ws_thread,
                    last_sync_time, ignore_next_update, sceneVars, thr, timers,
                    now, echo, lastEmit >>

\* ---------------------------------------------------------- envelope codec
\* Python values as json.dumps sees them: None, str, int, list, dict (a dict's
\* items are its keys and values in insertion order: k1, v1, k2, v2, ...).
PNone      == [ k |-> "none", s |-> "", n |-> 0, items |-> << >> ]
PStr(x)    == [ k |-> "str",  s |-> x,  n |-> 0, items |-> << >> ]
PInt(i)    == [ k |-> "int",  s |-> "", n |-> i, items |-> << >> ]
PList(xs)  == [ k |-> "list", s |-> "", n |-> 0, items |-> xs ]
PDict(kvs) == [ k |-> "dict", s |-> "", n |-> 0, items |-> kvs ]

\* Python truth value, as `x or y` tests it
Truthy(v) ==
    CASE v.k = "none" -> FALSE
      [] v.k = "str"  -> v.s # ""
      [] v.k = "int"  -> v.n # 0
      [] OTHER        -> v.items # << >>

\* a lexical token of JSON text
Tok(t, x, i) == [ t |-> t, s |-> x, n |-> i ]
Punct(t) == Tok(t, "", 0)

\* json.dumps(v): the text, as its sequence of tokens
RECURSIVE json_dumps(_), DumpItems(_), DumpMembers(_)
json_dumps(v) ==
    CASE v.k = "none" -> << Punct("null") >>
      [] v.k = "str"  -> << Tok("str", v.s, 0) >>
      [] v.k = "int"  -> << Tok("num", "", v.n) >>
      [] v.k = "list" -> << Punct("[") >> \o DumpItems(v.items) \o << Punct("]") >>
      [] v.k = "dict" -> << Punct("{") >> \o DumpMembers(v.items) \o << Punct("}") >>

DumpItems(xs) ==
    IF xs = << >> THEN << >>
    ELSE json_dumps(Head(xs)) \o
         (IF Tail(xs) = << >> THEN << >> ELSE << Punct(",") >> \o DumpItems(Tail(xs)))

DumpMembers(kvs) ==
    IF kvs = << >> THEN << >>
    ELSE LET rest == SubSeq(kvs, 3, Len(kvs))
         IN  << Tok("str", kvs[1].s, 0), Punct(":") >> \o json_dumps(kvs[2]) \o
             (IF rest = << >> THEN << >> ELSE << Punct(",") >> \o DumpMembers(rest))

\* json.loads(text): a recursive-descent reading of the tokens
RECURSIVE ParseValue(_), ParseItems(_, _), ParseMembers(_, _)
ParseValue(ts) ==
    LET h == Head(ts)
    IN  CASE h.t = "null" -> [ val |-> PNone, rest |-> Tail(ts) ]
          [] h.t = "str"  -> [ val |-> PStr(h.s), rest |-> Tail(ts) ]
          [] h.t = "num"  -> [ val |-> PInt(h.n), rest |-> Tail(ts) ]
          [] h.t = "["    -> ParseItems(Tail(ts), << >>)
          [] h.t = "{"    -> ParseMembers(Tail(ts), << >>)

ParseItems(ts, acc) ==
    IF Head(ts).t = "]" THEN [ val |-> PList(acc), rest |-> Tail(ts) ]
    ELSE LET ts1 == IF Head(ts).t = "," THEN Tail(ts) ELSE ts
             r   == ParseValue(ts1)
         IN  ParseItems(r.rest, Append(acc, r.val))

ParseMembers(ts, acc) ==
    IF Head(ts).t = "}" THEN [ val |-> PDict(acc), rest |-> Tail(ts) ]
    ELSE LET ts1 == IF Head(ts).t = "," THEN Tail(ts) ELSE ts
             r   == ParseValue(Tail(Tail(ts1)))          \* after the key and ":"
         IN  ParseMembers(r.rest, acc \o << PStr(Head(ts1).s), r.val >>)

json_loads(ts) == ParseValue(ts).val

\* dict.get(key, default) on a decoded object
RECURSIVE DictGet(_, _, _)
DictGet(kvs, key, default) ==
    IF kvs = << >> THEN default
    ELSE LET n == Len(kvs)
         IN  IF kvs[n - 1].s = key THEN kvs[n]
             ELSE DictGet(SubSeq(kvs, 1, n - 2), key, default)

\* create_message always stamping the stored session id
create_message_stored(msg_type, payload, sid) ==
    json_dumps(PDict(<< PStr("type"), PStr(msg_type),
                        PStr("sessionId"), PStr(session_id),
                        PStr("timestamp"), PInt(now),
                        PStr("payload"), IF Truthy(payload) THEN payload ELSE PDict(<< >>) >>))

\* create_message(msg_type, payload=None, session_id=None) down to the text
create_message_json(msg_type, payload, sid) ==
    json_dumps(PDict(<< PStr("type"), PStr(msg_type),
                        PStr("sessionId"), IF Truthy(sid) THEN sid ELSE PStr(session_id),
                        PStr("timestamp"), PInt(now),
                        PStr("payload"), IF Truthy(payload) THEN payload ELSE PDict(<< >>) >>))

\* the arguments create_message is called with: payloads are string-keyed maps
\* of JSON values, or None when the argument is omitted
EnvelopeTypes == { "join", "transform", "object_select" }
EnvelopeSids  == { PNone, PStr(""), PStr("scene42"), PStr("lobby") }
EnvelopePayloads ==
    { PNone,
      PDict(<< >>),
      PDict(<< PStr("objectId"), PStr(MeshName) >>),
      PDict(<< PStr("objectId"), PStr("") >>),
      PDict(<< PStr("objectIds"), PList(<< >>) >>),
      PDict(<< PStr("objectIds"), PList(<< PStr(MeshName), PStr(LightName) >>) >>),
      PDict(<< PStr("position"), PList(<< PInt(1), PInt(2), PInt(3) >>),
               PStr("objectId"), PStr(MeshName) >>),
      PDict(<< PStr("parent"), PNone, PStr("count"), PInt(0) >>),
      PDict(<< PStr("material"), PDict(<< PStr("name"), PStr("Red"),
                                          PStr("color"), PList(<< PInt(1), PInt(0), PInt(0) >>) >>) >>),
      PDict(<< PStr("params"), PDict(<< >>), PStr("grid"), PList(<< PList(<< >>), PList(<< PInt(7) >>) >>) >>),
      PDict(<< PStr("type"), PStr("join"), PStr("payload"), PDict(<< PStr("sessionId"), PStr("x") >>) >>) }

\* create_message builds a frame; the relay hands it back as it was sent
Encode(msg_type, payload, sid) ==
    /\ hostpc = "idle" /\ message_queue = << >>
    /\ message_queue' = << create_message_json(msg_type, payload, sid) >>
    /\ UNCHANGED << ws, connected, session_id, client_id, ws_thread, last_sync_time,
                    selected_objects, ignore_next_update, sceneVars, thr, timers,
                    now, hostpc, echo, lastEmit >>
    /\ ObserveQuiet(Op("create_message", FALSE, FALSE,
                       [ type |-> msg_type, payload |-> payload, sid |-> sid ]))

\* the receiving side: message = json.loads(raw)
Decode ==
    /\ lastOp.op = "create_message" /\ message_queue # << >>
    /\ message_queue' = << >>
    /\ UNCHANGED << ws, connected, session_id, client_id, ws_thread, last_sync_time,
                    selected_objects, ignore_next_update, sceneVars, thr, timers,
                    now, hostpc, echo, lastEmit >>
    /\ ObserveQuiet(Op("json_loads", FALSE, FALSE,
                       [ input |-> lastOp.arg, stored |-> session_id,
                         message |-> json_loads(Head(message_queue)) ]))

\* ------------------------------------------------------- depsgraph handler
\* One entry of depsgraph.updates: an ID datablock (an object of the scene, or
\* something else such as a material) and whether its transform was updated.
Update(isObject, name, xf) ==
    [ isObject |-> isObject, name |-> name, is_updated_transform |-> xf ]

UpdateKinds ==
    { Update(TRUE, MeshName, TRUE), Update(TRUE, MeshName, FALSE),
      Update(TRUE, LightName, TRUE), Update(FALSE, "Material", FALSE) }

\* the order in which a notification lists the datablocks
UpdateRank(name) == IF name = MeshName THEN 1 ELSE IF name = LightName THEN 2 ELSE 3

\* the notifications: up to MaxUpdates entries, one per datablock
UpdateLists ==
    { us \in UNION { [ 1..k -> UpdateKinds ] : k \in 1..MaxUpdates } :
        \A i, j \in DOMAIN us : i < j => UpdateRank(us[i].name) < UpdateRank(us[j].name) }

ObjectsIn(us) == { us[i].name : i \in { j \in DOMAIN us : us[j].isObject } }

\* send_transform(obj)
send_transform(os, name) ==
    LET transform == get_object_transform(os[name])
    IN  send_message("transform",
            [ objectId |-> name, position |-> transform.position,
              rotation |-> transform.rotation, scale |-> transform.scale ])

\* the for loop of depsgraph_update_handler over the updates us, from the
\* EchoGuard `ignore` and the calls `cs` made so far
RECURSIVE ScanUpdates(_, _, _)
ScanUpdates(us, ignore, cs) ==
    IF us = << >> THEN [ ignore |-> ignore, calls |-> cs ]
    ELSE LET update == Head(us)
         IN  IF ~update.isObject THEN ScanUpdates(Tail(us), ignore, cs)
             ELSE IF update.name \in ignore
                  THEN ScanUpdates(Tail(us), ignore \ { update.name }, cs)
             ELSE IF objs[update.name].type = "MESH" /\ update.is_updated_transform
                  THEN ScanUpdates(Tail(us), ignore,
                                   Append(cs, send_transform(objs, update.name)))
             ELSE ScanUpdates(Tail(us), ignore, cs)

\* the rate gate with the comparison turned around
GateOpen_strict(t) == t - last_sync_time > sync_interval

\* the rate gate measuring from one unit later than it should
GateOpen_short(t) == ~(t - last_sync_time < sync_interval - 1)

\* the rate gate of depsgraph_update_handler lets a notification at `t` pass
GateOpen(t) == ~(t - last_sync_time < sync_interval)

\* depsgraph_update_handler without the test of the interval
Depsgraph_ungated(us) ==
    /\ hostpc = "idle"
    /\ ObjectsIn(us) \subseteq DOMAIN objs
    /\ LET passed == connected
           r == IF passed THEN ScanUpdates(us, ignore_next_update, << >>)
                ELSE [ ignore |-> ignore_next_update, calls |-> << >> ]
           note == [ updates |-> us, time |-> now,
                     first  |-> { n \in ObjectsIn(us) : echo[n] \in { "applied", "twice" } },
                     owed   |-> { n \in ObjectsIn(us) : echo[n] = "owed" },
                     second |-> { n \in ObjectsIn(us) : echo[n] = "seen" },
                     guarded |-> ObjectsIn(us) \cap ignore_next_update,
                     connected |-> connected, gate |-> GateOpen(now),
                     sock |-> SockOpen(ws), prevEmit |-> lastEmit,
                     prevSync |-> last_sync_time ]
       IN  /\ last_sync_time' = IF passed THEN now ELSE last_sync_time
           /\ ignore_next_update' = r.ignore
           /\ echo' = [ n \in ObjNames |->
                          IF n \notin ObjectsIn(us) THEN echo[n]
                          ELSE Notified(echo[n]) ]
           /\ lastEmit' = IF Wired(r.calls) # << >> THEN now ELSE lastEmit
           /\ ObserveHost(Op("depsgraph", passed, FALSE, note), r.calls)
    /\ UNCHANGED << ws, connected, session_id, client_id, message_queue, ws_thread,
                    selected_objects, sceneVars, thr, timers, now, hostpc >>

\* depsgraph_update_handler stamping last_sync_time only when it has sent
Depsgraph_lazy(us) ==
    /\ hostpc = "idle"
    /\ ObjectsIn(us) \subseteq DOMAIN objs
    /\ LET passed == connected /\ GateOpen(now)
           r == IF passed THEN ScanUpdates(us, ignore_next_update, << >>)
                ELSE [ ignore |-> ignore_next_update, calls |-> << >> ]
           note == [ updates |-> us, time |-> now,
                     first  |-> { n \in ObjectsIn(us) : echo[n] \in { "applied", "twice" } },
                     owed   |-> { n \in ObjectsIn(us) : echo[n] = "owed" },
                     second |-> { n \in ObjectsIn(us) : echo[n] = "seen" },
                     guarded |-> ObjectsIn(us) \cap ignore_next_update,
                     connected |-> connected, gate |-> GateOpen(now),
                     sock |-> SockOpen(ws), prevEmit |-> lastEmit,
                     prevSync |-> last_sync_time ]
       IN  /\ last_sync_time' = IF Wired(r.calls) # << >> THEN now ELSE last_sync_time
           /\ ignore_next_update' = r.ignore
           /\ echo' = [ n \in ObjNames |->
                          IF n \notin ObjectsIn(us) THEN echo[n]
                          ELSE Notified(echo[n]) ]
           /\ lastEmit' = IF Wired(r.calls) # << >> THEN now ELSE lastEmit
           /\ ObserveHost(Op("depsgraph", passed, FALSE, note), r.calls)
    /\ UNCHANGED << ws, connected, session_id, client_id, message_queue, ws_thread,
                    selected_objects, sceneVars, thr, timers, now, hostpc >>

\* depsgraph_update_handler(scene, depsgraph)
Depsgraph(us) ==
    /\ hostpc = "idle"
    /\ ObjectsIn(us) \subseteq DOMAIN objs
    /\ LET passed == connected /\ GateOpen(now)
           r == IF passed THEN ScanUpdates(us, ignore_next_update, << >>)
                ELSE [ ignore |-> ignore_next_update, calls |-> << >> ]
           note == [ updates |-> us, time |-> now,
                     first  |-> { n \in ObjectsIn(us) : echo[n] \in { "applied", "twice" } },
                     owed   |-> { n \in ObjectsIn(us) : echo[n] = "owed" },
                     second |-> { n \in ObjectsIn(us) : echo[n] = "seen" },
                     guarded |-> ObjectsIn(us) \cap ignore_next_update,
                     connected |-> connected, gate |-> GateOpen(now),
                     sock |-> SockOpen(ws), prevEmit |-> lastEmit,
                     prevSync |-> last_sync_time ]
       IN  /\ last_sync_time' = IF passed THEN now ELSE last_sync_time
           /\ ignore_next_update' = r.ignore
           /\ echo' = [ n \in ObjNames |->
                          IF n \notin ObjectsIn(us) THEN echo[n]
                          ELSE Notified(echo[n]) ]
           /\ lastEmit' = IF Wired(r.calls) # << >> THEN now ELSE lastEmit
           /\ ObserveHost(Op("depsgraph", passed, FALSE, note), r.calls)
    /\ UNCHANGED << ws, connected, session_id, client_id, message_queue, ws_thread,
                    selected_objects, sceneVars, thr, timers, now, hostpc >>

\* ------------------------------------------------------------- environment
\* the clock advances
Tick ==
    /\ now < MaxTime
    /\ now' = now + 1
    /\ UNCHANGED << sessionVars, sceneVars, thr, timers, hostpc, echo, lastEmit >>
    /\ ObserveQuiet(Op("tick", FALSE, FALSE, NoArg))

\* the user selects or deselects an object in the viewport
LocalSelect(n) ==
    /\ hostpc = "idle"
    /\ n \in DOMAIN objs
    /\ objs' = [ objs EXCEPT ![n].select = ~@ ]
    /\ UNCHANGED << sessionVars, active, materials, thr, timers, now, hostpc, echo, lastEmit >>
    /\ ObserveQuiet(Op("local_select", FALSE, FALSE, NoArg))

\* the angles about X the user turns an object to, in half turns
Turns == 0..3

\* the user rotates an object in the viewport: the rotation is stored in the
\* property of the object's rotation mode
LocalRotate(n, k) ==
    /\ hostpc = "idle"
    /\ n \in DOMAIN objs
    /\ objs' = IF objs[n].rotation_mode = "QUATERNION"
               THEN [ objs EXCEPT ![n].rotation_quaternion = to_quaternion(<< k, 0, 0 >>) ]
               ELSE [ objs EXCEPT ![n].rotation_euler = << k, 0, 0 >> ]
    /\ UNCHANGED << sessionVars, active, materials, thr, timers, now, hostpc, echo, lastEmit >>
    /\ ObserveQuiet(Op("local_rotate", FALSE, FALSE, NoArg))

\* ------------------------------------------------------------ specification
Network ==
    \E t \in Tids :
        \/ ThreadCreate(t)
        \/ Handshake(t)
        \/ ConnectFail(t)
        \/ OnOpenFlag(t)
        \/ OnOpenJoin(t)
        \/ TransportDrop(t)
        \/ OnClose(t)

TimerTick ==
    \/ TimerStart
    \/ ProcessFrame
    \/ TimerFinish

InboundFrames ==
    { GarbageFrame, ArrayFrame, NoTypeFrame, NullPayloadFrame,
      MoveFrame("bisect"), MoveFrame(OwnRole), TurnFrame, LampFrame, GhostFrame,
      BadMoveFrame, SelectFrame("bisect"), SelectFrame(OwnRole),
      JoinedFrame(""), JoinedFrame(OwnRole),
      SceneRequestFrame("ai"), SceneRequestFrame(OwnRole),
      ClientJoinedFrame, PingFrame }

\* the whole add-on
Next ==
    \/ Network
    \/ \E t \in Tids : \E f \in InboundFrames : OnMessage(t, f)
    \/ \E sid \in SessionIds : ConnectOp(sid)
    \/ DisconnectOp
    \/ TimerTick
    \/ \E us \in UpdateLists : Depsgraph(us)
    \/ \E n \in ObjNames : LocalSelect(n)
    \/ Tick

Spec == Init /\ [][Next]_vars

\* the connection lifecycle: connect, disconnect, the network threads, and the
\* host's selection reports as its outbound traffic
NextConn ==
    \/ Network
    \/ \E t \in Tids : OnMessage(t, JoinedFrame(""))
    \/ \E sid \in SessionIds : ConnectOp(sid)
    \/ DisconnectOp
    \/ TimerTick
    \/ LocalSelect(MeshName)

SpecConn == InitWith({"XYZ"}) /\ [][NextConn]_vars

\* the outbound path: remote transforms arriving, local-mutation notifications,
\* the clock, over connections that open, drop and are closed
NextSync ==
    \/ Network
    \/ \E t \in Tids : OnMessage(t, MoveFrame("bisect"))
    \/ ConnectOp("scene42")
    \/ TimerTick
    \/ \E us \in UpdateLists : Depsgraph(us)
    \/ Tick

SpecSync == InitWith({"XYZ"}) /\ [][NextSync]_vars

\* inbound traffic of every sender and shape, over one session
InboundTraffic ==
    { GarbageFrame, ArrayFrame, NoTypeFrame,
      MoveFrame(OwnRole), SelectFrame(OwnRole), JoinedFrame(OwnRole),
      SceneRequestFrame(OwnRole), MoveFrame("bisect") }

NextInbound ==
    \/ Network
    \/ \E t \in Tids : \E f \in InboundTraffic : OnMessage(t, f)
    \/ ConnectOp("scene42")
    \/ TimerTick

SpecInbound == InitWith({"XYZ"}) /\ [][NextInbound]_vars

\* remote transforms of every shape, applied to objects of both rotation modes
TransformTraffic == { MoveFrame("bisect"), TurnFrame, GhostFrame, BadMoveFrame }

NextTransform ==
    \/ Network
    \/ \E t \in Tids : \E f \in TransformTraffic : OnMessage(t, f)
    \/ ConnectOp("scene42")
    \/ TimerTick

SpecTransform == Init /\ [][NextTransform]_vars

\* both contexts at work on one scene: remote transforms and selections
\* arriving, ticks, local notifications (the clock stands)
ContextTraffic == { MoveFrame("bisect"), SelectFrame("bisect") }

NextContexts ==
    \/ Network
    \/ \E t \in Tids : \E f \in ContextTraffic : OnMessage(t, f)
    \/ ConnectOp("scene42")
    \/ TimerTick
    \/ Depsgraph(<< Update(TRUE, MeshName, TRUE) >>)

SpecContexts == InitWith({"XYZ"}) /\ [][NextContexts]_vars

\* one session after another: connect, remote transforms arriving, disconnect,
\* connect again
NextSessions ==
    \/ Network
    \/ \E t \in Tids : OnMessage(t, MoveFrame("bisect"))
    \/ \E sid \in SessionIds : ConnectOp(sid)
    \/ DisconnectOp
    \/ TimerTick

SpecSessions == InitWith({"XYZ"}) /\ [][NextSessions]_vars

\* the codec alone: envelopes encoded under every stored session id, decoded
NextEnvelope ==
    \/ \E sid \in SessionIds : ConnectOp(sid)
    \/ DisconnectOp
    \/ \E ty \in EnvelopeTypes, pl \in EnvelopePayloads, sid \in EnvelopeSids :
          Encode(ty, pl, sid)
    \/ Decode

SpecEnvelope == InitWith({"XYZ"}) /\ [][NextEnvelope]_vars

\* commands of agent clients, executed by the tick.  A command that may add an
\* object is taken while the scene has room for it.
Roomy(traffic) ==
    \E t \in Tids : \E f \in traffic :
        /\ Cardinality(DOMAIN objs) + Len(message_queue) < MaxObjects
        /\ OnMessage(t, f)

CreateTraffic == { CreateBallFrame, CreateLampFrame, CreateDefaultFrame }

NextCreate ==
    \/ Network
    \/ Roomy(CreateTraffic)
    \/ ConnectOp("scene42")
    \/ TimerTick

SpecCreate == InitWith({"XYZ"}) /\ [][NextCreate]_vars

\* create commands for a shape the handler knows and for one it does not
ShapeTraffic == { CreateBallFrame, CreatePyramidFrame }

NextShapes ==
    \/ Network
    \/ Roomy(ShapeTraffic)
    \/ ConnectOp("scene42")
    \/ TimerTick

SpecShapes == InitWith({"XYZ"}) /\ [][NextShapes]_vars

\* modify_mesh commands for the mesh, the lamp and a missing entity, and a
\* create command that leaves another mesh active.  A command is taken while
\* no object can end up with more than MaxModifiers modifiers.
ModifyTraffic ==
    { SubdivideFrame, BevelFrame(MeshName), BevelFrame(LightName),
      BevelFrame(GhostName), SmoothFrame, CreateBallFrame }

NextModify ==
    \/ Network
    \/ \E t \in Tids : \E f \in ModifyTraffic :
          /\ Cardinality(DOMAIN objs) + Len(message_queue) < MaxObjects
          /\ \A n \in DOMAIN objs :
                Len(objs[n].modifiers) + Len(message_queue) < MaxModifiers
          /\ OnMessage(t, f)
    \/ ConnectOp("scene42")
    \/ TimerTick
    \/ LocalSelect(MeshName)

SpecModify == InitWith({"XYZ"}) /\ [][NextModify]_vars

DeleteTraffic == { DeleteFrame(MeshName), DeleteFrame(GhostName), DeleteByNameFrame }

NextDelete ==
    \/ Network
    \/ \E t \in Tids : \E f \in DeleteTraffic : OnMessage(t, f)
    \/ ConnectOp("scene42")
    \/ TimerTick
    \/ LocalSelect(MeshName)

SpecDelete == InitWith({"XYZ"}) /\ [][NextDelete]_vars

\* commands and frames the dispatcher has no branch for, and a transform
IgnoredTraffic ==
    { ExplodeFrame, NoActionFrame, ClientJoinedFrame, ClientLeftFrame, PingFrame,
      HologramFrame, MoveFrame("bisect") }

NextIgnored ==
    \/ Network
    \/ \E t \in Tids : \E f \in IgnoredTraffic : OnMessage(t, f)
    \/ ConnectOp("scene42")
    \/ TimerTick

SpecIgnored == InitWith({"XYZ"}) /\ [][NextIgnored]_vars

\* remote and local selections
SelectTraffic ==
    { SelectFrame("bisect"), SelectNoneFrame, SelectBothFrame, SelectDefaultFrame }

NextSelect ==
    \/ Network
    \/ \E t \in Tids : \E f \in SelectTraffic : OnMessage(t, f)
    \/ ConnectOp("scene42")
    \/ TimerTick
    \/ LocalSelect(LightName)

SpecSelect == InitWith({"XYZ"}) /\ [][NextSelect]_vars

\* the rotation round trip: the user turns the mesh, the handler forwards its
\* transform, and a peer returns the payload as it was sent
Reflected ==
    \E t \in Tids :
        /\ sent # << >> /\ Head(sent).type = "transform"
        /\ OnMessage(t, Frame("transform", Head(sent).payload))

NextRotation ==
    \/ Network
    \/ Reflected
    \/ ConnectOp("scene42")
    \/ TimerTick
    \/ \E k \in Turns : LocalRotate(MeshName, k)
    \/ Depsgraph(<< Update(TRUE, MeshName, TRUE) >>)

SpecRotation == Init /\ [][NextRotation]_vars

\* the inbound queue between its producer and its consumer: frames of several
\* kinds arriving while the timer, registered by the connect, keeps running
DeliveryTraffic ==
    { MoveFrame("bisect"), GarbageFrame, NullPayloadFrame, BadMoveFrame }

NextDelivery ==
    \/ Network
    \/ \E t \in Tids : \E f \in DeliveryTraffic : OnMessage(t, f)
    \/ ConnectOp("scene42")
    \/ TimerTick

\* the host calls a registered timer again and again, and a call runs to its end
SpecDelivery ==
    InitWith({"XYZ"}) /\ [][NextDelivery]_vars /\ WF_<< hostpc, message_queue >>(TimerTick)

\* the legacy add-on receiving transforms: its tick is the same timer around
\* its own dispatcher
LegacyTraffic == { MoveFrame("bisect"), TurnFrame, LampFrame, GhostFrame }

LegacyTick ==
    \/ TimerStart
    \/ LegacyProcessFrame
    \/ TimerFinish

NextLegacy ==
    \/ Network
    \/ \E t \in Tids : \E f \in LegacyTraffic : OnMessage(t, f)
    \/ ConnectOp("scene42")
    \/ LegacyTick

SpecLegacy == Init /\ [][NextLegacy]_vars

\* ================================================================== claims
AliveThreads == { t \in Tids : IsAlive(t) }

\* C4: start_connection returns false, raises nothing and starts no thread
\* while a network thread is alive; otherwise it returns true and leaves
\* exactly one thread alive.  So at most one network thread is ever alive.
C4_SingleNetworkContext ==
    /\ [](Cardinality(AliveThreads) <= 1)
    /\ [][ lastOp'.op = "start_connection" =>
             IF AliveThreads # {}
             THEN ~lastOp'.ret /\ ~lastOp'.raised /\ thr' = thr /\ ws_thread' = ws_thread
             ELSE lastOp'.ret /\ ~lastOp'.raised /\ Cardinality(AliveThreads') = 1 ]_vars

\* a connect was rejected while a network thread was alive
C4_Witness == lastOp.op = "start_connection" /\ ~lastOp.ret /\ AliveThreads # {}

\* C8: the first envelope sent on a connection is the join of the session the
\* connect call named, at envelope and payload level, with the client type of
\* this add-on's role (the spec's "host" is "blender" on the wire).
C8_JoinFirst ==
    lastOp.first =>
        LET m == Head(sent)
            sid == thr[lastOp.conn].sid
        IN  /\ m.type = "join"
            /\ m.sessionId = sid
            /\ m.payload.sessionId = sid
            /\ m.payload.clientType = OwnRole

\* C9: stop_connection never raises, and called twice in a row it leaves the
\* connected flag, the session id and the client id as the first call left them.
C9_DisconnectIdempotent ==
    [][ lastOp'.op = "stop_connection" =>
          /\ ~lastOp'.raised
          /\ lastOp'.again =>
               << connected', session_id', client_id' >> = << connected, session_id, client_id >>
      ]_vars

\* stop_connection was called twice in a row with no connection ever made
C9_Witness == lastOp.op = "stop_connection" /\ lastOp.again /\ ws = None

\* C10: a send_message call that finds the connected flag false or no handle
\* returns false and sends nothing; one that finds the socket closed returns
\* false; no call raises.
C10_SendFailFast ==
    \A i \in DOMAIN calls :
        LET c == calls[i]
        IN  /\ ~c.raised
            /\ (~c.given.connected \/ c.given.ws = None) => (~c.ret /\ c.wired = << >>)
            /\ ~c.given.sock => (~c.ret /\ c.wired = << >>)

\* a send was attempted while the connected flag was false
C10_Witness == \E i \in DOMAIN calls : ~calls[i].given.connected /\ ~calls[i].ret

\* ---------------------------------------------------------- the outbound path
\* the latest step sent a transform envelope for entity n
SentTransformFor(n) ==
    \E i \in DOMAIN sent : sent[i].type = "transform" /\ sent[i].payload.objectId = n

\* the entries of a notification that the handler forwards when nothing
\* suppresses them: MESH objects whose transform was updated
Forwardable(us) ==
    { us[i].name : i \in { j \in DOMAIN us :
          /\ us[j].isObject /\ us[j].is_updated_transform
          /\ objs[us[j].name].type = "MESH" } }

\* C1: after a remote transform was applied to E, the next notification for E
\* sends no transform for E, and the one after it (no remote transform for E in
\* between; gate open, connection usable, E forwardable) does send one.
C1_EchoSuppression ==
    lastOp.op = "depsgraph" =>
        LET note == lastOp.arg
        IN  /\ \A n \in note.first : ~SentTransformFor(n)
            /\ \A n \in note.second :
                 ( /\ note.connected /\ note.sock
                   /\ note.time - note.prevSync >= sync_interval
                   /\ n \in Forwardable(note.updates) )
                 => SentTransformFor(n)

\* the first half of C1 alone: the notification that follows a remote apply
\* never forwards the entity
EchoFirstNotification ==
    lastOp.op = "depsgraph" => \A n \in lastOp.arg.first : ~SentTransformFor(n)

\* C2: a notification that emits transforms comes at least sync_interval after
\* the previous notification that emitted, and after the previous one that
\* opened the gate.
C2_RateGate ==
    (lastOp.op = "depsgraph" /\ sent # << >>) =>
        LET note == lastOp.arg
        IN  /\ note.prevEmit # -1 => note.time - note.prevEmit >= sync_interval
            /\ note.time - note.prevSync >= sync_interval

\* a forwardable change was dropped because it came too soon after an emission
C2_Witness ==
    /\ lastOp.op = "depsgraph" /\ sent = << >>
    /\ lastOp.arg.connected /\ lastOp.arg.sock
    /\ lastOp.arg.prevEmit # -1
    /\ lastOp.arg.time - lastOp.arg.prevEmit < sync_interval
    /\ Forwardable(lastOp.arg.updates) \ lastOp.arg.guarded # {}

\* C3 as claimed: gate open, connected, nothing guarded: a transform goes out
\* for every changed entity of the notification.
C3_EveryChangedEntity ==
    ( /\ lastOp.op = "depsgraph"
      /\ lastOp.arg.connected
      /\ lastOp.arg.time - lastOp.arg.prevSync >= sync_interval
      /\ lastOp.arg.guarded = {} )
    => \A n \in ObjectsIn(lastOp.arg.updates) : SentTransformFor(n)

\* C3 amended: gate open, connected flag set, socket open, nothing guarded: a
\* transform goes out for every MESH object whose transform was updated.
C3_GateResponse ==
    ( /\ lastOp.op = "depsgraph"
      /\ lastOp.arg.connected /\ lastOp.arg.sock
      /\ lastOp.arg.time - lastOp.arg.prevSync >= sync_interval
      /\ lastOp.arg.guarded = {} )
    => \A n \in Forwardable(lastOp.arg.updates) : SentTransformFor(n)

\* a notification passed the gate at exactly the interval and was forwarded
C3_Witness ==
    /\ lastOp.op = "depsgraph"
    /\ lastOp.arg.prevSync # 0
    /\ lastOp.arg.time - lastOp.arg.prevSync = sync_interval
    /\ Len(lastOp.arg.updates) > 1
    /\ SentTransformFor(MeshName)

\* ----------------------------------------------------------- the inbound path
\* the frame carries this client's own role as its sender-role marker
OwnMarked(f) ==
    f.json = "object" /\ f.payloadKind = "map" /\ "_senderType" \in DOMAIN f.payload
    /\ f.payload["_senderType"] = OwnRole

\* everything a frame handler could touch, but the queue it was taken from
hostTouched == << ws, connected, session_id, client_id, ws_thread, last_sync_time,
                  selected_objects, ignore_next_update, objs, active, materials, timers >>

\* C5: dispatching a frame marked with this client's own role, whatever its
\* type, changes no scene state and no session state and sends nothing.
C5_OwnRoleDiscard ==
    [][ (lastOp'.op = "dispatch" /\ OwnMarked(lastOp'.arg)) =>
          /\ UNCHANGED hostTouched
          /\ sent' = << >> /\ calls' = << >>
          /\ message_queue' = Tail(message_queue) ]_vars

\* an own-role transform for an existing entity was dispatched
C5_Witness ==
    /\ lastOp.op = "dispatch" /\ lastOp.arg = MoveFrame(OwnRole)
    /\ MeshName \in DOMAIN objs

\* C6: dispatching a malformed frame (not JSON, not an object, no type) only
\* removes it from the queue; the drain goes on, so the frames queued behind
\* it are dispatched in the same tick.
C6_MalformedSkipped ==
    /\ [][ (lastOp'.op = "dispatch" /\ Malformed(lastOp'.arg)) =>
             /\ UNCHANGED hostTouched
             /\ sent' = << >>
             /\ message_queue' = Tail(message_queue)
             /\ hostpc' = "drain" ]_vars
    /\ []((hostpc = "drain" /\ message_queue # << >>) => ENABLED ProcessFrame)

\* a well-formed transform was applied right after a malformed frame was skipped
C6_Witness ==
    /\ lastOp.op = "dispatch" /\ lastOp.again
    /\ lastOp.arg = MoveFrame("bisect")
    /\ objs[MeshName].location = << 1, 2, 3 >>

\* a decodable transform frame from another client
RemoteTransform(f) ==
    f.json = "object" /\ f.payloadKind = "map" /\ f.hasType /\ f.type = "transform"
    /\ ~OwnMarked(f)

\* the quaternion (w, x, y, z) a wire rotation [x, y, z, w] denotes
WireQuaternion(r) == << r[4], r[1], r[2], r[3] >>

\* the quaternion of an object, whatever its rotation mode
RotationOf(obj) ==
    IF obj.rotation_mode = "QUATERNION" THEN obj.rotation_quaternion
    ELSE to_quaternion(obj.rotation_euler)

\* C7: dispatching a transform for an absent entity changes neither the scene
\* nor EchoGuard; for an existing entity its id is in EchoGuard afterwards and,
\* the payload lists being of the right lengths (absent ones at their
\* defaults), its position and scale are the payload's and its rotation is the
\* payload's quaternion with w as scalar part (QUATERNION mode: the very
\* components; Euler modes: the same orientation); no other object changes.
C7_TransformApplied ==
    [][ (lastOp'.op = "dispatch" /\ RemoteTransform(lastOp'.arg)) =>
          LET p   == lastOp'.arg.payload
              id  == Get(p, "objectId", "")
              pos == Get(p, "position", << 0, 0, 0 >>)
              rot == Get(p, "rotation", << 0, 0, 0, 1 >>)
              scl == Get(p, "scale", << 1, 1, 1 >>)
          IN  IF id \notin DOMAIN objs
              THEN UNCHANGED << objs, active, ignore_next_update >>
              ELSE /\ ignore_next_update' = ignore_next_update \cup { id }
                   /\ \A n \in DOMAIN objs \ { id } : objs'[n] = objs[n]
                   /\ (Len(pos) = 3 /\ Len(rot) >= 4 /\ Len(scl) = 3) =>
                        /\ objs'[id].location = pos
                        /\ objs'[id].scale = scl
                        /\ IF objs[id].rotation_mode = "QUATERNION"
                           THEN RotationOf(objs'[id]) = WireQuaternion(rot)
                           ELSE to_euler(RotationOf(objs'[id])) = to_euler(WireQuaternion(rot))
      ]_vars

\* Scenario C: the remote move was applied and the entity is in EchoGuard
C7_Witness ==
    /\ lastOp.op = "dispatch" /\ lastOp.arg = MoveFrame("bisect")
    /\ objs[MeshName].location = << 1, 2, 3 >>
    /\ RotationOf(objs[MeshName]) = << 1, 0, 0, 0 >>
    /\ MeshName \in ignore_next_update

\* ------------------------------------------------------------ reconnection
\* C11: once on_error / on_close has cleared the connected flag, the flag is
\* false and no network thread is started, until start_connection succeeds
\* again; a thread is only ever started by a start_connection call.
C11_NoAutoReconnect ==
    /\ [](dropped => ~connected)
    /\ [][ (\E t \in Tids : ~IsAlive(t) /\ IsAlive(t)') =>
             (lastOp'.op = "start_connection" /\ lastOp'.ret) ]_vars
    /\ [][ dropped => (dropped' \/ lastOp'.op = "start_connection") ]_vars

\* the connection dropped, every thread is gone, and timer ticks have run since
C11_Witness ==
    /\ dropped /\ lastOp.op = "selection"
    /\ ws # None /\ \A t \in Tids : ~IsAlive(t)
    /\ \E t \in Tids : thr[t].pc = "unborn"

\* ------------------------------------------------------- the two contexts
\* the steps of the network thread and of its transport
NetOps == { "thread_create", "handshake", "on_error", "on_open", "on_open_join",
            "on_open_error", "on_message", "drop", "on_close" }

\* the scene and the bookkeeping of the synchronisation
hostOwned == << objs, active, materials, ignore_next_update, selected_objects,
               last_sync_time >>

\* what a step of the network thread does besides storing its handle
NetStepEffect ==
    /\ UNCHANGED hostOwned
    /\ UNCHANGED << session_id, client_id, ws_thread, timers >>
    /\ IF lastOp'.op = "on_message"
       THEN message_queue' = Append(message_queue, lastOp'.arg)
       ELSE message_queue' = message_queue
    /\ sent' # << >> =>
         /\ lastOp'.op = "on_open_join"
         /\ Len(sent') = 1 /\ sent'[1].type = "join"

\* C12 as claimed: a step of the network context changes nothing but the queue
\* (the received frame, verbatim, appended) and the connected flag, and sends
\* nothing but the join; scene and bookkeeping change in host steps only.
C12_NetworkOnlyEnqueues ==
    [][ /\ lastOp'.op \in NetOps => (NetStepEffect /\ ws' = ws)
        /\ ~(UNCHANGED hostOwned) => lastOp'.op \notin NetOps ]_vars

\* C12 amended: the same, but the network context also stores the connection
\* handle it creates.
C12_ContextSeparation ==
    [][ /\ lastOp'.op \in NetOps =>
             /\ NetStepEffect
             /\ ws' # ws => (lastOp'.op = "thread_create" /\ ws' \in Tids)
        /\ ~(UNCHANGED hostOwned) => lastOp'.op \notin NetOps ]_vars

\* a frame arrives while the tick is draining the queue, on a scene the host
\* has applied a remote transform to, selected in and forwarded from
C12_Witness ==
    /\ lastOp.op = "on_message" /\ hostpc = "drain"
    /\ ignore_next_update # {} /\ selected_objects # {} /\ last_sync_time # 0

\* ---------------------------------------------------------------- selection
\* the connection takes a send
Usable == connected /\ ws # None /\ SockOpen(ws)

\* C13 as claimed: the tick emits an object_select exactly when the selection
\* differs from the snapshot.
C13_EmitsIffDiffers ==
    [][ lastOp'.op = "selection" =>
          ((sent' # << >>) <=> (SelectedNames(objs) # selected_objects)) ]_vars

\* C13 amended: the tick replaces the snapshot by the current selection; it
\* emits an object_select exactly when the selection differs from the snapshot
\* and the connection takes the send; the envelope lists exactly the selected
\* ids.  So the next tick over the same selection emits nothing.
C13_SelectionDiffing ==
    [][ lastOp'.op = "selection" =>
          LET cur == SelectedNames(objs)
          IN  /\ (sent' # << >>) <=> (cur # selected_objects /\ Usable)
              /\ sent' # << >> =>
                   /\ Len(sent') = 1 /\ sent'[1].type = "object_select"
                   /\ sent'[1].payload.objectIds = cur
              /\ selected_objects' = cur
              /\ SelectedNames(objs') = cur ]_vars

\* a tick over a usable connection found the selection it had recorded before
\* and reported nothing
C13_Witness ==
    /\ lastOp.op = "selection" /\ ~lastOp.ret /\ sent = << >>
    /\ selected_objects = { MeshName } /\ Usable

\* ------------------------------------------------------------- idempotence
\* C14: dispatching a transform frame right after dispatching the same frame
\* changes neither an object nor EchoGuard.
C14_TransformIdempotent ==
    [][ (lastOp'.op = "dispatch" /\ lastOp'.repeat /\ RemoteTransform(lastOp'.arg)) =>
          UNCHANGED << objs, active, ignore_next_update >> ]_vars

\* the same move of an existing entity was dispatched twice in a row
C14_Witness ==
    /\ lastOp.op = "dispatch" /\ lastOp.repeat /\ lastOp.arg = MoveFrame("bisect")
    /\ objs[MeshName].location = << 1, 2, 3 >>
    /\ ignore_next_update = { MeshName }

\* ------------------------------------------------------------------- codec
\* C15: decoding the frame create_message built from a type, a non-empty
\* session id and a payload map gives an object with that type, that session
\* id and that payload; an omitted payload comes back as the empty map.
C15_RoundTrip ==
    (lastOp.op = "json_loads" /\ Truthy(lastOp.arg.input.sid)) =>
        LET given   == lastOp.arg.input
            message == lastOp.arg.message
        IN  /\ message.k = "dict"
            /\ DictGet(message.items, "type", PNone) = PStr(given.type)
            /\ DictGet(message.items, "sessionId", PNone) = given.sid
            /\ DictGet(message.items, "payload", PDict(<< >>)) =
                 IF given.payload = PNone THEN PDict(<< >>) ELSE given.payload

\* an envelope built with the payload omitted and a session id other than the
\* stored one was decoded
C15_Witness ==
    /\ lastOp.op = "json_loads"
    /\ lastOp.arg.input.sid = PStr("lobby") /\ lastOp.arg.stored = "scene42"
    /\ lastOp.arg.input.payload = PNone
    /\ DictGet(lastOp.arg.message.items, "payload", PNone) = PDict(<< >>)

\* ----------------------------------------------------------------- commands
\* a decodable ai_execute frame of another client with the given action
CommandFrame(f, action) ==
    /\ f.json = "object" /\ f.payloadKind = "map" /\ f.hasType
    /\ f.type = "ai_execute" /\ ~OwnMarked(f)
    /\ Get(f.payload, "action", "") = action

\* the arguments of a create_object command, with the handler's defaults
CreateArgs(f) ==
    LET params == Get(f.payload, "params", EmptyMap)
    IN  [ type     |-> upper(Get(params, "type", "CUBE")),
          name     |-> Get(params, "name", "AI_Object"),
          position |-> Get(params, "position", << 0, 0, 0 >>) ]

\* a create_object command for a recognised shape was dispatched
Creating(f) ==
    /\ CommandFrame(f, "create_object")
    /\ CreateArgs(f).type \in Primitives
    /\ Len(CreateArgs(f).position) = 3

\* C16 as claimed: one new entity, of that shape, at that position, under the
\* requested name, and one object_add envelope describing it.
C16_CreateNamedAndAnnounced ==
    [][ (lastOp'.op = "dispatch" /\ Creating(lastOp'.arg)) =>
          LET a == CreateArgs(lastOp'.arg)
          IN  /\ DOMAIN objs' = DOMAIN objs \cup { a.name }
              /\ a.name \notin DOMAIN objs
              /\ Len(sent') = 1 /\ sent'[1].type = "object_add"
              /\ sent'[1].payload.id = a.name ]_vars

\* C16 amended: one new entity, of that shape, at that position; it has the
\* requested name unless an entity already has it (then a name no entity had);
\* over a usable connection one object_add envelope describes it, otherwise
\* nothing is sent.
C16_CreateCommand ==
    [][ (lastOp'.op = "dispatch" /\ Creating(lastOp'.arg)) =>
          LET a   == CreateArgs(lastOp'.arg)
              new == DOMAIN objs' \ DOMAIN objs
          IN  /\ Cardinality(new) = 1
              /\ DOMAIN objs \subseteq DOMAIN objs'
              /\ \A nm \in new :
                   /\ objs'[nm].type = "MESH"
                   /\ objs'[nm].shape = a.type
                   /\ objs'[nm].location = a.position
                   /\ IF a.name \in DOMAIN objs THEN nm # a.name ELSE nm = a.name
                   /\ IF Usable
                      THEN /\ Len(sent') = 1
                           /\ sent'[1].type = "object_add"
                           /\ sent'[1].payload.id = nm
                           /\ sent'[1].payload.name = nm
                           /\ sent'[1].payload.type = "MESH"
                           /\ sent'[1].payload.position = a.position
                      ELSE sent' = << >> ]_vars

\* the sphere "AI_Ball" was created at (0,0,1) and announced
C16_Witness ==
    /\ lastOp.op = "dispatch" /\ lastOp.arg = CreateBallFrame
    /\ "AI_Ball" \in DOMAIN objs
    /\ objs["AI_Ball"].shape = "SPHERE" /\ objs["AI_Ball"].location = << 0, 0, 1 >>
    /\ Len(sent) = 1 /\ sent[1].type = "object_add" /\ sent[1].payload.id = "AI_Ball"

\* the entity a delete_object command names: objectId, or else name
DeleteTarget(f) ==
    LET params == Get(f.payload, "params", EmptyMap)
        first  == Get(params, "objectId", "")
    IN  IF first # "" THEN first ELSE Get(params, "name", "")

\* the objects other than n are as they were
OthersKept(n) ==
    /\ DOMAIN objs' = DOMAIN objs \ { n }
    /\ \A m \in DOMAIN objs' : objs'[m] = objs[m]

\* C17 as claimed: an existing entity is removed and one object_delete with its
\* id is emitted; a missing one changes nothing and emits nothing.
C17_DeleteAnnounced ==
    [][ (lastOp'.op = "dispatch" /\ CommandFrame(lastOp'.arg, "delete_object")) =>
          LET n == DeleteTarget(lastOp'.arg)
          IN  IF n \in DOMAIN objs
              THEN /\ OthersKept(n)
                   /\ Len(sent') = 1 /\ sent'[1].type = "object_delete"
                   /\ sent'[1].payload.objectId = n
              ELSE UNCHANGED << objs, active, materials >> /\ sent' = << >> ]_vars

\* C17 amended: an existing entity, and only it, is removed, and over a usable
\* connection one object_delete with its id is emitted (otherwise nothing is
\* sent); a missing one changes nothing and emits nothing.
C17_DeleteCommand ==
    [][ (lastOp'.op = "dispatch" /\ CommandFrame(lastOp'.arg, "delete_object")) =>
          LET n == DeleteTarget(lastOp'.arg)
          IN  IF n \in DOMAIN objs
              THEN /\ OthersKept(n)
                   /\ IF Usable
                      THEN /\ Len(sent') = 1 /\ sent'[1].type = "object_delete"
                           /\ sent'[1].payload.objectId = n
                      ELSE sent' = << >>
              ELSE /\ UNCHANGED << objs, active, materials, ignore_next_update,
                                   selected_objects, client_id >>
                   /\ sent' = << >> ]_vars

\* the mesh was deleted and announced, the lamp is still there
C17_Witness ==
    /\ lastOp.op = "dispatch" /\ lastOp.arg = DeleteFrame(MeshName)
    /\ DOMAIN objs = { LightName }
    /\ Len(sent) = 1 /\ sent[1].type = "object_delete"
    /\ sent[1].payload.objectId = MeshName

\* the actions handle_ai_execute has a branch for
KnownActions == { "create_object", "delete_object", "modify_mesh" }

\* a decodable ai_execute frame of another client whose action is missing or
\* none of the known ones
UnknownCommand(f) ==
    /\ f.json = "object" /\ f.payloadKind = "map" /\ f.hasType
    /\ f.type = "ai_execute" /\ ~OwnMarked(f)
    /\ Get(f.payload, "action", "") \notin KnownActions

\* C18: dispatching an ai_execute with an unknown or missing action changes
\* nothing but the queue, sends nothing, and leaves the tick in its drain loop
\* with the next queued frame ready to be dispatched.
C18_UnknownActionIgnored ==
    /\ [][ (lastOp'.op = "dispatch" /\ UnknownCommand(lastOp'.arg)) =>
             /\ UNCHANGED hostTouched
             /\ sent' = << >> /\ calls' = << >>
             /\ message_queue' = Tail(message_queue)
             /\ hostpc' = "drain" ]_vars
    /\ []((lastOp.op = "dispatch" /\ UnknownCommand(lastOp.arg) /\ message_queue # << >>)
            => ENABLED ProcessFrame)

\* an unknown action was dispatched over a usable connection with a transform
\* queued behind it
C18_Witness ==
    /\ lastOp.op = "dispatch" /\ lastOp.arg = ExplodeFrame
    /\ Usable /\ hostpc = "drain"
    /\ message_queue = << MoveFrame("bisect") >>

\* ---------------------------------------------------------- remote selection
\* a decodable object_select frame of another client
RemoteSelect(f) ==
    /\ f.json = "object" /\ f.payloadKind = "map" /\ f.hasType
    /\ f.type = "object_select" /\ ~OwnMarked(f)

\* the elements of a list
Range(xs) == { xs[i] : i \in DOMAIN xs }

\* C19: dispatching an object_select with id list L makes the selection exactly
\* the ids of L that are objects of the scene, whatever was selected before;
\* ids that are no objects raise nothing, and no object is added, removed or
\* otherwise changed.
C19_SelectApplied ==
    [][ (lastOp'.op = "dispatch" /\ RemoteSelect(lastOp'.arg)) =>
          LET L == Get(lastOp'.arg.payload, "objectIds", << >>)
          IN  /\ SelectedNames(objs') = Range(L) \cap DOMAIN objs
              /\ DOMAIN objs' = DOMAIN objs
              /\ \A n \in DOMAIN objs :
                   [ objs'[n] EXCEPT !.select = FALSE ] = [ objs[n] EXCEPT !.select = FALSE ]
              /\ ~lastOp'.raised /\ hostpc' = "drain" ]_vars

\* the lamp was selected locally and reported; a remote selection naming a
\* missing entity and the mesh replaced it
C19_Witness ==
    /\ lastOp.op = "dispatch" /\ lastOp.arg = SelectFrame("bisect")
    /\ selected_objects = { LightName }
    /\ SelectedNames(objs) = { MeshName }

\* ------------------------------------------------------------ ignored frames
\* the types process_incoming_messages has a state-changing branch for
HandledTypes == { "joined", "scene_request", "transform", "object_select",
                  "material_assign", "material_update", "ai_execute" }

\* a decodable frame of another client whose type is client_joined,
\* client_left or one the dispatcher does not know
Informational(f) ==
    /\ f.json = "object" /\ f.payloadKind = "map" /\ f.hasType
    /\ ~OwnMarked(f)
    /\ f.type \notin HandledTypes

\* C20: dispatching a client_joined, a client_left or a frame of an unknown
\* type changes no scene state, no session state, neither EchoGuard nor the
\* selection snapshot nor the rate-limiter time, and sends nothing.
C20_IgnoredFrames ==
    [][ (lastOp'.op = "dispatch" /\ Informational(lastOp'.arg)) =>
          /\ UNCHANGED hostTouched
          /\ sent' = << >> /\ calls' = << >> ]_vars

\* a client_joined was dispatched over a usable connection, on a scene a remote
\* transform had changed
C20_Witness ==
    /\ lastOp.op = "dispatch" /\ lastOp.arg = ClientJoinedFrame
    /\ Usable
    /\ objs[MeshName].location = << 1, 2, 3 >> /\ ignore_next_update = { MeshName }

\* ------------------------------------------------------ rotation round trip
\* the quaternion with every component negated: the same orientation
Neg(q) == << -q[1], -q[2], -q[3], -q[4] >>

\* a remote transform for an existing entity whose rotation is the encoding
\* get_object_transform gives of the entity as it is
Returning(f) ==
    /\ RemoteTransform(f)
    /\ Get(f.payload, "objectId", "") \in DOMAIN objs
    /\ "rotation" \in DOMAIN f.payload /\ "position" \in DOMAIN f.payload
    /\ f.payload.rotation = get_object_transform(objs[f.payload.objectId]).rotation

\* C21 as claimed: the wire rotation is [x, y, z, w], and applying the encoding
\* of an entity's rotation to the entity leaves its quaternion (w, x, y, z) as
\* it was.
C21_SameComponents ==
    [][ (lastOp'.op = "dispatch" /\ Returning(lastOp'.arg)) =>
          LET id == lastOp'.arg.payload.objectId
              q  == RotationOf(objs[id])
          IN  /\ lastOp'.arg.payload.rotation = << q[2], q[3], q[4], q[1] >>
              /\ RotationOf(objs'[id]) = q ]_vars

\* C21 amended: the wire rotation is [x, y, z, w]; applying it leaves a
\* QUATERNION-mode entity's components as they were, and an Euler-mode entity
\* in the same orientation, its components the same or all negated.
C21_RotationRoundTrip ==
    [][ (lastOp'.op = "dispatch" /\ Returning(lastOp'.arg)) =>
          LET id == lastOp'.arg.payload.objectId
              q  == RotationOf(objs[id])
          IN  /\ lastOp'.arg.payload.rotation = << q[2], q[3], q[4], q[1] >>
              /\ objs'[id].rotation_mode = objs[id].rotation_mode
              /\ IF objs[id].rotation_mode = "QUATERNION"
                 THEN RotationOf(objs'[id]) = q
                 ELSE /\ RotationOf(objs'[id]) \in { q, Neg(q) }
                      /\ to_euler(RotationOf(objs'[id])) = to_euler(q) ]_vars

\* the encoding of a half turn was applied to the QUATERNION-mode entity it
\* was taken from
C21_Witness ==
    /\ lastOp.op = "dispatch" /\ RemoteTransform(lastOp.arg)
    /\ lastOp.arg.payload.rotation = << 1, 0, 0, 0 >>
    /\ objs[MeshName].rotation_mode = "QUATERNION"
    /\ objs[MeshName].rotation_quaternion = << 0, 1, 0, 0 >>

\* --------------------------------------------------------------- session id
\* C22: while the connected flag is true the stored session id is non-empty
\* and is the id given to the connect call that started the connection, and
\* every envelope sent carries that id.
C22_SessionIdWhileConnected ==
    /\ connected =>
         /\ session_id # ""
         /\ ws_thread # None /\ session_id = thr[ws_thread].sid
    /\ \A i \in DOMAIN sent :
         /\ sent[i].sessionId # ""
         /\ sent[i].sessionId = thr[lastOp.conn].sid

\* ------------------------------------------------------------ inbound queue
\* the latest step dispatched the frame f
Dispatched(f) == IF lastOp.op = "dispatch" THEN lastOp.arg = f ELSE FALSE

\* C23: the queue changes only by the network context appending the frame it
\* received and by the tick taking the oldest frame, which is the one it
\* dispatches (so frames are dispatched once each, in arrival order); a tick
\* ends only on an empty queue, however many frames it has dispatched; and,
\* the timer running, a waiting frame is eventually dispatched.
C23_QueueDelivery ==
    /\ [][ /\ lastOp'.op = "on_message" =>
                message_queue' = Append(message_queue, lastOp'.arg)
           /\ lastOp'.op = "dispatch" =>
                /\ message_queue # << >>
                /\ lastOp'.arg = Head(message_queue)
                /\ message_queue' = Tail(message_queue)
           /\ lastOp'.op \notin { "on_message", "dispatch" } =>
                message_queue' = message_queue
           /\ lastOp'.op = "selection" => message_queue = << >> ]_vars
    /\ []((hostpc = "drain" /\ message_queue # << >>) =>
             (ENABLED ProcessFrame /\ ~ENABLED TimerFinish))
    /\ \A f \in DeliveryTraffic :
          (message_queue # << >> /\ Head(message_queue) = f)
              ~> Dispatched(f)

\* a frame arrived while the tick was draining, behind a different frame
C23_Witness ==
    /\ lastOp.op = "on_message" /\ hostpc = "drain"
    /\ Len(message_queue) = 2 /\ message_queue[1] # message_queue[2]

\* ---------------------------------------------------------------- EchoGuard
\* C24: a notification that contains entity E leaves E out of EchoGuard,
\* whether the notification passed the gate or not, connected or not.
C24_SingleUse ==
    lastOp.op = "depsgraph" =>
        ObjectsIn(lastOp.arg.updates) \cap ignore_next_update = {}

\* ------------------------------------------------------------ the hard gate
\* the notification came while connected and inside the interval
GateRejected(op) ==
    /\ op.op = "depsgraph" /\ op.arg.connected
    /\ op.arg.time - op.arg.prevSync < sync_interval

\* C25: a notification the rate gate rejects sends nothing and leaves the
\* whole state of the engine as it was (so nothing of it is pending); and a
\* transform is only ever sent by a notification that passed the gate, for an
\* entity that notification lists.
C25_HardGate ==
    [][ /\ GateRejected(lastOp') =>
             /\ sent' = << >> /\ calls' = << >>
             /\ UNCHANGED << sessionVars, sceneVars, thr, timers, hostpc >>
        /\ \A n \in ObjNames :
             (\E i \in DOMAIN sent' :
                 sent'[i].type = "transform" /\ sent'[i].payload.objectId = n)
             => /\ lastOp'.op = "depsgraph" /\ lastOp'.ret
                /\ ~GateRejected(lastOp')
                /\ n \in Forwardable(lastOp'.arg.updates) ]_vars

\* a notification of two changes, one a mesh move nothing suppresses, was
\* rejected whole over a usable connection
C25_Witness ==
    /\ GateRejected(lastOp) /\ lastOp.arg.sock
    /\ Len(lastOp.arg.updates) = 2
    /\ MeshName \in Forwardable(lastOp.arg.updates) \ lastOp.arg.guarded
    /\ sent = << >>

\* ----------------------------------------------------------- last_sync_time
\* C26: a notification that comes while disconnected or inside the interval
\* leaves last_sync_time and EchoGuard as they were; one that passes sets
\* last_sync_time to its time, whatever it then emits; nothing else changes
\* last_sync_time.
C26_StampWhenGateOpens ==
    [][ /\ lastOp'.op = "depsgraph" =>
             IF connected /\ now - last_sync_time >= sync_interval
             THEN last_sync_time' = now /\ lastOp'.arg.time = now
             ELSE UNCHANGED << last_sync_time, ignore_next_update >>
        /\ last_sync_time' # last_sync_time =>
             /\ lastOp'.op = "depsgraph"
             /\ connected /\ now - last_sync_time >= sync_interval ]_vars

\* a notification passed the gate, was suppressed whole by EchoGuard, sent
\* nothing, and moved last_sync_time to its time
C26_Witness ==
    /\ lastOp.op = "depsgraph" /\ lastOp.ret
    /\ calls = << >> /\ sent = << >>
    /\ lastOp.arg.guarded = { MeshName }
    /\ last_sync_time = lastOp.arg.time /\ lastOp.arg.prevSync < lastOp.arg.time
    /\ lastOp.arg.prevSync # 0

\* --------------------------------------------------------- rejected connect
\* C27: a start_connection call that returns false leaves the session id, the
\* connected flag, the client id, the connection handle and the network
\* threads as they were, and registers no timer.
C27_RejectedConnectNoChange ==
    [][ (lastOp'.op = "start_connection" /\ ~lastOp'.ret) =>
          UNCHANGED << session_id, connected, client_id, ws, ws_thread, thr, timers >>
      ]_vars

\* a connect naming another session was rejected while the first session's
\* connection was up and joined
C27_Witness ==
    /\ lastOp.op = "start_connection" /\ ~lastOp.ret
    /\ lastOp.arg.sid = "lobby" /\ session_id = "scene42"
    /\ connected /\ client_id = "c7"

\* ---------------------------------------------------------- tick termination
\* C28: dispatching a frame that raises takes the frame off the queue and
\* leaves the tick draining; the frame queued behind it is dispatched; and
\* unless the network context goes on enqueuing for ever, a tick that is
\* draining comes to its end.
C28_TickTerminates ==
    /\ [][ (lastOp'.op = "dispatch" /\ Raises(lastOp'.arg)) =>
             /\ hostpc' = "drain"
             /\ message_queue' = Tail(message_queue) ]_vars
    /\ \A f \in DeliveryTraffic :
          ( /\ hostpc = "drain" /\ Len(message_queue) = 2
            /\ Raises(message_queue[1]) /\ message_queue[2] = f )
              ~> Dispatched(f)
    /\ (<>[](lastOp.op # "on_message")) => ((hostpc = "drain") ~> (hostpc = "idle"))

\* a transform raised inside apply_transform, its position applied and its
\* rotation not, and the tick is still draining with the next frame waiting
C28_Witness ==
    /\ Dispatched(BadMoveFrame) /\ hostpc = "drain"
    /\ objs[MeshName].location = << 4, 4, 4 >>
    /\ objs[MeshName].rotation_quaternion = << 1, 0, 0, 0 >>
    /\ message_queue = << MoveFrame("bisect") >>

\* --------------------------------------------------- legacy rotation result
\* a decodable transform frame for an existing entity, its lists of the right
\* lengths
AppliesTransform(f) ==
    /\ f.json = "object" /\ f.payloadKind = "map" /\ f.hasType /\ f.type = "transform"
    /\ Get(f.payload, "objectId", "") \in DOMAIN objs
    /\ Len(Get(f.payload, "position", << 0, 0, 0 >>)) = 3
    /\ Len(Get(f.payload, "rotation", << 0, 0, 0, 1 >>)) = 4
    /\ Len(Get(f.payload, "scale", << 1, 1, 1 >>)) = 3

\* C29: the legacy dispatcher leaves the entity with the rotation the v2
\* apply_transform gives it: the payload's [x, y, z, w] with w as scalar part
\* (QUATERNION mode: the very components; Euler modes: that orientation).
C29_LegacySameRotation ==
    [][ (lastOp'.op = "legacy_dispatch" /\ AppliesTransform(lastOp'.arg)) =>
          LET p   == lastOp'.arg.payload
              id  == p.objectId
              rot == Get(p, "rotation", << 0, 0, 0, 1 >>)
              v2  == apply_transform(HostState, id, Get(p, "position", << 0, 0, 0 >>),
                                     rot, Get(p, "scale", << 1, 1, 1 >>))
          IN  /\ to_euler(RotationOf(objs'[id])) = to_euler(RotationOf(v2.objs[id]))
              /\ IF objs[id].rotation_mode = "QUATERNION"
                 THEN RotationOf(objs'[id]) = WireQuaternion(rot)
                 ELSE to_euler(RotationOf(objs'[id])) = to_euler(WireQuaternion(rot))
      ]_vars

\* --------------------------------------------------------- final disconnect
\* C30: from the return of stop_connection to the next start_connection call
\* the connected flag is false.
C30_DisconnectFinal == stopped => ~connected
\* --------------------------------------------- repeated remote transforms
\* C31: when several remote transforms were applied to E before a notification
\* for E was handled, none of the notifications these applies cause (the first
\* one after the applies, and the one still owed after it) sends a transform
\* for E.
C31_NoRebroadcast ==
    lastOp.op = "depsgraph" =>
        \A n \in lastOp.arg.first \cup lastOp.arg.owed : ~SentTransformFor(n)

\* ------------------------------------------------ remote selection, reported
\* C32: while the user changes no selection (every selection change comes from
\* an object_select frame of another client), the selection check at the end
\* of a tick emits no object_select.
C32_NoSelectionEcho ==
    lastOp.op = "selection" => \A i \in DOMAIN sent : sent[i].type # "object_select"

\* ------------------------------------------------- a transform that fails
\* C33: the dispatch of a transform frame whose apply raises part-way leaves
\* ignore_next_update as it was: the entity of the skipped frame is not added.
C33_FailedApplyLeavesNoEntry ==
    [][ (lastOp'.op = "dispatch" /\ Raises(lastOp'.arg) /\ Decodes(lastOp'.arg)) =>
          ignore_next_update' = ignore_next_update ]_vars

\* ------------------------------------------------------- session isolation
\* C34: a connect that follows a disconnect starts the new session with an
\* empty inbound queue and an empty ignore_next_update: no frame received and
\* no entry inserted during an earlier connection is left for the new session.
C34_SessionIsolation ==
    [][ (stopped /\ lastOp'.op = "start_connection" /\ lastOp'.ret) =>
          (message_queue' = << >> /\ ignore_next_update' = {}) ]_vars

\* ------------------------------------------------------ unrecognised shapes
\* a create_object command for a shape that is none of the primitives
CreatingUnknown(f) ==
    /\ CommandFrame(f, "create_object")
    /\ CreateArgs(f).type \notin Primitives

\* C35: dispatching a create_object command with an unrecognised shape type
\* adds no entity, renames or changes no entity of the scene, and sends no
\* object_add envelope.
C35_UnknownShapeIgnored ==
    [][ (lastOp'.op = "dispatch" /\ CreatingUnknown(lastOp'.arg)) =>
          /\ objs' = objs
          /\ \A i \in DOMAIN sent' : sent'[i].type # "object_add" ]_vars

\* ------------------------------------------------------------ modify_mesh
\* the arguments of a modify_mesh command, with the handler's defaults
ModifyArgs(f) ==
    LET params == Get(f.payload, "params", EmptyMap)
    IN  [ objectId |-> Get(params, "objectId", ""),
          modifier |-> upper(Get(params, "modifier", "")),
          levels   |-> Get(params, "levels", 2),
          width    |-> Get(params, "width", 1) ]

\* the entity as the command is claimed to leave it
Modified(o, a) ==
    IF a.modifier = "SUBDIVIDE"
    THEN [ o EXCEPT !.modifiers =
             Append(@, [ NewModifier("SUBSURF") EXCEPT !.levels = a.levels ]) ]
    ELSE IF a.modifier = "BEVEL"
    THEN [ o EXCEPT !.modifiers =
             Append(@, [ NewModifier("BEVEL") EXCEPT !.width = a.width ]) ]
    ELSE IF a.modifier = "SMOOTH" THEN [ o EXCEPT !.smooth = TRUE ]
    ELSE o

\* C36: dispatching a modify_mesh command changes only the entity named by
\* objectId: a mesh of that name gets the modifier with its parameter (or
\* smooth shading), every other entity is left as it was, nothing changes when
\* the entity is missing or no mesh, and no envelope is sent.
C36_ModifyTargetOnly ==
    [][ (lastOp'.op = "dispatch" /\ CommandFrame(lastOp'.arg, "modify_mesh")) =>
          LET a == ModifyArgs(lastOp'.arg)
          IN  /\ DOMAIN objs' = DOMAIN objs
              /\ \A n \in DOMAIN objs :
                   objs'[n] = IF n = a.objectId /\ objs[n].type = "MESH"
                              THEN Modified(objs[n], a) ELSE objs[n]
              /\ calls' = << >> ]_vars

\* --------------------------------------------------- the tick registration
\* C37: in every reachable state timer_callback is registered at most once.
C37_SingleRegistration == timers <= 1

\* ------------------------------------------------- selection changes, kept
\* C38: the selection snapshot advances only in a step that sent the
\* object_select envelope reporting the new selection, so a change seen while
\* nothing can be sent is still to be reported once the connection is open.
C38_SnapshotOnlyWhenSent ==
    [][ selected_objects' # selected_objects =>
          \E i \in DOMAIN sent' :
              /\ sent'[i].type = "object_select"
              /\ Range(sent'[i].payload.objectIds) = selected_objects' ]_vars

====
